---- MODULE Spec2Model ----
(***************************************************************************)
(* InteliCAD backend (src/fastUpload.py): the in-memory job store, the     *)
(* FastAPI endpoints that mutate it, and the planning phases they call.    *)
(*                                                                         *)
(* A handler is a coroutine.  It runs atomically up to an await of an LLM  *)
(* call, is suspended there while other handlers run, and resumes with the *)
(* reply.  The two LLM calls of Phase 2 (and of Phase 3) are adjacent: no  *)
(* job field is read or written between them and the first reply is never  *)
(* used, so each phase is one suspension.                                  *)
(*                                                                         *)
(* Python values: a missing dict key is Absent, None is Null, a dict is a  *)
(* record with k = "dict".  Text that the code inspects (part_type,        *)
(* use_case_description) is a sequence of one-character strings.           *)
(***************************************************************************)
EXTENDS Naturals, Sequences, FiniteSets, TLC

\* ------------------------------------------------------------------ bounds
MaxJobs == 2
MaxCalls == 3
MaxInFlight == 2
MaxFilterOps == 3

\* ----------------------------------------------------------------- values
Absent == [k |-> "absent"]
Null == [k |-> "null"]
NoKey == "<no key>"

IsNone(v) == v = Absent \/ v = Null

Min(a, b) == IF a < b THEN a ELSE b

\* -------------------------------------------------------------------- text
LowerChar(c) ==
    CASE c = "A" -> "a" [] c = "B" -> "b" [] c = "C" -> "c" [] c = "D" -> "d"
      [] c = "E" -> "e" [] c = "G" -> "g" [] c = "H" -> "h" [] c = "I" -> "i"
      [] c = "K" -> "k" [] c = "L" -> "l" [] c = "M" -> "m" [] c = "N" -> "n"
      [] c = "O" -> "o" [] c = "P" -> "p" [] c = "R" -> "r" [] c = "S" -> "s"
      [] c = "T" -> "t" [] c = "U" -> "u" [] c = "V" -> "v"
      [] OTHER -> c

\* str.lower()
Lower(s) == [i \in 1..Len(s) |-> LowerChar(s[i])]

\* the Python test  kw in s  on two strings
Contains(s, kw) ==
    \E i \in 0..Len(s) :
        /\ i + Len(kw) <= Len(s)
        /\ \A j \in 1..Len(kw) : s[i + j] = kw[j]

KW_hanger == <<"h", "a", "n", "g", "e", "r">>
KW_bracket == <<"b", "r", "a", "c", "k", "e", "t">>
KW_clip == <<"c", "l", "i", "p">>
KW_mount == <<"m", "o", "u", "n", "t">>
KW_hook == <<"h", "o", "o", "k">>
KW_enclosure == <<"e", "n", "c", "l", "o", "s", "u", "r", "e">>
KW_housing == <<"h", "o", "u", "s", "i", "n", "g">>
KW_electronic == <<"e", "l", "e", "c", "t", "r", "o", "n", "i", "c">>
KW_cooling == <<"c", "o", "o", "l", "i", "n", "g">>

LoadBearingKeywords == {KW_hanger, KW_bracket, KW_clip, KW_mount, KW_hook}
\* a faulty variant: the forbidden list without its last entry
LoadBearingForbidden_noFillet == {"strategic_holes", "ventilation"}

LoadBearingForbidden == {"strategic_holes", "ventilation", "fillet_all_edges"}

\* ------------------------------------------------------- the safety filter
Str(s) == [k |-> "str", s |-> s]

\* dict.get(key, "") on a text field of design_plan["design_intent"]
GetText(field) == IF field = Absent THEN <<>> ELSE field.s

IsLoadBearing(part_type) == \E kw \in LoadBearingKeywords : Contains(part_type, kw)

IsEnclosure(part_type) ==
    Contains(part_type, KW_enclosure) \/ Contains(part_type, KW_housing)

NeedsCooling(use_case) ==
    Contains(use_case, KW_electronic) \/ Contains(use_case, KW_cooling)

\* a faulty variant: the use-case description is not lower-cased
KeepOp_caseSensitive(op, part_type, use_case) ==
    /\ ~(IsLoadBearing(part_type) /\ op.type \in LoadBearingForbidden)
    /\ ~(/\ IsEnclosure(part_type)
         /\ op.type = "ventilation"
         /\ ~NeedsCooling(use_case))

\* one pass of the loop body: TRUE when op reaches filtered_ops.append(op)
KeepOp(op, part_type, use_case) ==
    /\ ~(IsLoadBearing(part_type) /\ op.type \in LoadBearingForbidden)
    /\ ~(/\ IsEnclosure(part_type)
         /\ op.type = "ventilation"
         /\ ~NeedsCooling(Lower(use_case)))

\* a faulty variant: every pass also drops the first operation it kept
SafetyFilter_dropsFirst(operations, part_type, use_case) ==
    LET kept == SelectSeq(operations, LAMBDA op : KeepOp(op, part_type, use_case))
    IN  IF kept = <<>> THEN kept ELSE Tail(kept)

SafetyFilter(operations, part_type, use_case) ==
    SelectSeq(operations, LAMBDA op : KeepOp(op, part_type, use_case))

\* Python truth value of the model_analysis argument: None and {} are false
Truthy(model_analysis) == ~IsNone(model_analysis) /\ model_analysis.keys > 0

Raised == [k |-> "raised"]

\* design_plan.get("design_intent", {}).get("part_type", "")
PartType(design_plan) ==
    IF design_plan = Absent THEN Absent ELSE design_plan.part_type

\* design_plan.get("design_intent", {}).get("use_case_description", "")
UseCase(design_plan) ==
    IF design_plan = Absent THEN Absent ELSE design_plan.use_case

\* What phase2_generate_operations returns from the reply of its JSON call,
\* or Raised when part_type is JSON null (None has no lower()).
Phase2Result(design_plan, model_analysis, reply) ==
    IF ~Truthy(model_analysis) THEN reply
    ELSE IF PartType(design_plan) = Null THEN Raised
    ELSE [reply EXCEPT !.operations =
              SafetyFilter(reply.operations,
                           Lower(GetText(PartType(design_plan))),
                           GetText(UseCase(design_plan)))]

\* ------------------------------------------------------ the gateway's replies
Op(id, type, reasoning) == [id |-> id, type |-> type, reasoning |-> reasoning]

\* call_nemotron's except branch, or an unset API key
TransportError == [k |-> "dict", error |-> "transport", operations |-> <<>>]
Plan(ops) == [k |-> "dict", error |-> NoKey, operations |-> ops]

NumberOps(types) == [i \in 1..Len(types) |-> Op(i, types[i].type, types[i].reasoning)]

SeqsUpTo(S, n) == UNION {[1..m -> S] : m \in 0..n}

\* plans over a set of (type, reasoning) pairs, ids in reply order
Plans(kinds, n) == {Plan(NumberOps(ks)) : ks \in SeqsUpTo(kinds, n)}

OpKind(type, reasoning) == [type |-> type, reasoning |-> reasoning]

Intent(part_type, use_case) ==
    [k |-> "dict", error |-> NoKey, part_type |-> part_type, use_case |-> use_case]

IntentError == [k |-> "dict", error |-> "transport", part_type |-> Absent, use_case |-> Absent]

PT_LBracket == <<"L", "_", "B", "r", "a", "c", "k", "e", "t">>
PT_Housing == <<"H", "o", "u", "s", "i", "n", "g">>
PT_decorative == <<"d", "e", "c", "o", "r">>
PT_HOOK == <<"H", "O", "O", "K">>
PT_clipmount == <<"c", "l", "i", "p", "m", "o", "u", "n", "t">>
PT_hanger_enclosure == <<"h", "a", "n", "g", "e", "r", "_", "e", "n", "c", "l", "o", "s", "u", "r", "e">>
PT_enclosure == <<"e", "n", "c", "l", "o", "s", "u", "r", "e">>
UC_box == <<"b", "o", "x">>
UC_Electronics == <<"E", "l", "e", "c", "t", "r", "o", "n", "i", "c", "s">>
UC_COOLING == <<"C", "O", "O", "L", "I", "N", "G">>

\* --------------------------------------------------------- input domains
Commands == {"make this lighter"}

JobIds == 1..MaxJobs
\* ids a client may address; 0 is never a job
AddressedIds == 0..MaxJobs

\* the body {} : a dict of no keys
EmptyAnalysis == [k |-> "dict", keys |-> 0]
MeasuredAnalysis == [k |-> "dict", keys |-> 8, current_mass |-> 120]
Analyses == {EmptyAnalysis, MeasuredAnalysis}

Phase1Replies ==
    {IntentError,
     Intent(Str(PT_LBracket), Str(UC_box)),
     Intent(Null, Absent)}

\* replies of the JSON call of Phase 2 and Phase 3: a gateway error, an empty
\* plan, and one-operation plans (one of them with "reasoning": null)
PlanReplies ==
    {TransportError,
     Plan(<<>>),
     Plan(<<Op(1, "shell_body", "text")>>),
     Plan(<<Op(1, "ventilation", "text")>>),
     Plan(<<Op(1, "shell_body", "null")>>)}

ExecResult(op, success) ==
    [operation |-> op, success |-> success,
     error |-> IF success THEN "" ELSE "topology change"]

\* request bodies of retry_failed_operations: no result, one success, one
\* failure, and a success between two failures
ExecutionReports ==
    {<<>>,
     <<ExecResult(Op(1, "shell_body", "text"), TRUE)>>,
     <<ExecResult(Op(1, "shell_body", "text"), FALSE)>>,
     <<ExecResult(Op(1, "shell_body", "text"), FALSE),
       ExecResult(Op(2, "add_ribs", "text"), TRUE),
       ExecResult(Op(3, "fillet_all_edges", "text"), FALSE)>>}

\* ------------------------------------------------------------------- state
VARIABLES
    jobs,       \* the module-level dict  jobs : job_id -> job dict
    files,      \* files written under jobs/<job_id>/
    nextId,     \* the next fresh uuid4
    inflight,   \* handlers suspended in an await of the gateway
    resp,       \* the request last answered and its response
    ncalls,     \* endpoint calls made so far
    probe       \* one application of a pure function: its inputs and result

vars == <<jobs, files, nextId, inflight, resp, ncalls, probe>>

Path(id, name) == [k |-> "path", job |-> id, name |-> name]

Idle == [k |-> "idle"]

Slots == 1..MaxInFlight

FreeSlot(s) == inflight[s] = Idle /\ \A t \in Slots : t < s => inflight[t] # Idle

NoResponse == [endpoint |-> "none"]

NoProbe == [fn |-> "none"]

\* the backend process after import: an empty job store
InitStore ==
    /\ jobs = <<>>
    /\ files = {}
    /\ nextId = 1
    /\ inflight = [s \in Slots |-> Idle]
    /\ resp = NoResponse
    /\ ncalls = 0

Init == InitStore /\ probe = NoProbe

\* the job dict written when Phase 1 reports an error
FailedJob(id, text_command, error) ==
    [status |-> "failed", error |-> error, text_command |-> text_command,
     input_file |-> Path(id, "input.f3d"),
     design_intent |-> Absent, preliminary_operations |-> Absent,
     model_analysis |-> Absent, final_operations |-> Absent,
     retry_operations |-> Absent, output_file |-> Absent, phase |-> NoKey]

\* the job dict written after Phase 1 and the preliminary Phase 2
NewJob(id, text_command, design_intent, operations) ==
    [status |-> "pending_analysis", error |-> NoKey, text_command |-> text_command,
     input_file |-> Path(id, "input.f3d"),
     design_intent |-> design_intent, preliminary_operations |-> operations,
     model_analysis |-> Null, final_operations |-> Null,
     retry_operations |-> Absent, output_file |-> Null,
     phase |-> "awaiting_model_analysis"]

\* ------------------------------------------------------------- submit_job
\* up to the await of Phase 1: the id is drawn and the upload is written
SubmitJobStart(s, text_command) ==
    /\ ncalls < MaxCalls
    /\ nextId <= MaxJobs
    /\ FreeSlot(s)
    /\ files' = files \cup {Path(nextId, "input.f3d")}
    /\ nextId' = nextId + 1
    /\ inflight' = [inflight EXCEPT ![s] =
           [k |-> "call", endpoint |-> "submit_job", pc |-> "phase1",
            job |-> nextId, text_command |-> text_command]]
    /\ ncalls' = ncalls + 1
    /\ UNCHANGED <<jobs, resp, probe>>

IsAt(s, endpoint, pc) ==
    /\ inflight[s] # Idle
    /\ inflight[s].endpoint = endpoint
    /\ inflight[s].pc = pc

\* Phase 1 returned an error: the job is stored as failed
SubmitJobPhase1Failed(s, reply) ==
    /\ IsAt(s, "submit_job", "phase1")
    /\ reply.error # NoKey
    /\ LET c == inflight[s] IN
        /\ jobs' = (c.job :> FailedJob(c.job, c.text_command, reply.error)) @@ jobs
        /\ resp' = [endpoint |-> "submit_job", job |-> c.job, result |-> "returned",
                    status |-> "failed"]
    /\ inflight' = [inflight EXCEPT ![s] = Idle]
    /\ UNCHANGED <<files, nextId, ncalls, probe>>

\* Phase 1 returned an intent: on to the await of the preliminary Phase 2
SubmitJobPhase1Ok(s, reply) ==
    /\ IsAt(s, "submit_job", "phase1")
    /\ reply.error = NoKey
    /\ inflight' = [inflight EXCEPT ![s] =
           [k |-> "call", endpoint |-> "submit_job", pc |-> "phase2",
            job |-> inflight[s].job, text_command |-> inflight[s].text_command,
            design_intent |-> reply]]
    /\ UNCHANGED <<jobs, files, nextId, resp, ncalls, probe>>

PrintedOps == 3

\* the progress print of the first three operations: op.get('reasoning',
\* 'N/A')[:50] raises TypeError when reasoning is JSON null
PrintRaises(operations) ==
    /\ operations.error = NoKey
    /\ \E i \in 1..Min(PrintedOps, Len(operations.operations)) :
           operations.operations[i].reasoning = "null"

\* the preliminary Phase 2 returned: print, then store the job
SubmitJobPhase2(s, reply) ==
    /\ IsAt(s, "submit_job", "phase2")
    /\ LET c == inflight[s]
           operations == Phase2Result(c.design_intent, Null, reply)
       IN  IF PrintRaises(operations)
           THEN /\ resp' = [endpoint |-> "submit_job", job |-> c.job,
                            result |-> "raised", status |-> NoKey]
                /\ UNCHANGED jobs
           ELSE /\ jobs' = (c.job :> NewJob(c.job, c.text_command,
                                            c.design_intent, operations)) @@ jobs
                /\ resp' = [endpoint |-> "submit_job", job |-> c.job,
                            result |-> "returned", status |-> "pending_analysis"]
    /\ inflight' = [inflight EXCEPT ![s] = Idle]
    /\ UNCHANGED <<files, nextId, ncalls, probe>>

\* ---------------------------------------------------- submit_model_analysis
\* a faulty variant: the handler raises on an unknown id
NotFound_raises(endpoint, id) ==
    [endpoint |-> endpoint, job |-> id, result |-> "raised", error |-> "Job not found"]

NotFound(endpoint, id) ==
    [endpoint |-> endpoint, job |-> id, result |-> "error", error |-> "Job not found"]

SubmitAnalysisNotFound(id) ==
    /\ ncalls < MaxCalls
    /\ id \notin DOMAIN jobs
    /\ resp' = NotFound("submit_model_analysis", id)
    /\ ncalls' = ncalls + 1
    /\ UNCHANGED <<jobs, files, nextId, inflight, probe>>

\* a faulty variant: job.get("design_intent") in place of job["design_intent"]
DesignIntentKeyError_get(job) == FALSE

\* job["design_intent"] on a job dict that has no such key
DesignIntentKeyError(job) == job.design_intent = Absent

\* the analysis is stored, then reading job["design_intent"] raises KeyError
SubmitAnalysisKeyError(id, analysis) ==
    /\ ncalls < MaxCalls
    /\ id \in DOMAIN jobs
    /\ DesignIntentKeyError(jobs[id])
    /\ jobs' = [jobs EXCEPT ![id].model_analysis = analysis]
    /\ resp' = [endpoint |-> "submit_model_analysis", job |-> id, result |-> "raised"]
    /\ ncalls' = ncalls + 1
    /\ UNCHANGED <<files, nextId, inflight, probe>>

\* up to the await of Phase 2B: the analysis is already stored on the job
SubmitAnalysisStart(s, id, analysis) ==
    /\ ncalls < MaxCalls
    /\ id \in DOMAIN jobs
    /\ ~DesignIntentKeyError(jobs[id])
    /\ FreeSlot(s)
    /\ jobs' = [jobs EXCEPT ![id].model_analysis = analysis]
    /\ inflight' = [inflight EXCEPT ![s] =
           [k |-> "call", endpoint |-> "submit_model_analysis", pc |-> "phase2b",
            job |-> id, analysis |-> analysis,
            design_intent |-> jobs[id].design_intent]]
    /\ ncalls' = ncalls + 1
    /\ UNCHANGED <<files, nextId, resp, probe>>

\* Phase 2B returned: the refined plan is stored and the job is made ready
SubmitAnalysisFinish(s, reply) ==
    /\ IsAt(s, "submit_model_analysis", "phase2b")
    /\ LET c == inflight[s]
           refined_operations == Phase2Result(c.design_intent, c.analysis, reply)
       IN  IF refined_operations = Raised
           THEN /\ resp' = [endpoint |-> "submit_model_analysis", job |-> c.job,
                            result |-> "raised"]
                /\ UNCHANGED jobs
           ELSE /\ jobs' = [jobs EXCEPT
                       ![c.job].final_operations = refined_operations,
                       ![c.job].status = "pending",
                       ![c.job].phase = "ready_for_execution"]
                /\ resp' = [endpoint |-> "submit_model_analysis", job |-> c.job,
                            result |-> "success"]
    /\ inflight' = [inflight EXCEPT ![s] = Idle]
    /\ UNCHANGED <<files, nextId, ncalls, probe>>

\* ------------------------------------------------------------ complete_job
CompleteJobNotFound(id) ==
    /\ ncalls < MaxCalls
    /\ id \notin DOMAIN jobs
    /\ resp' = NotFound("complete_job", id)
    /\ ncalls' = ncalls + 1
    /\ UNCHANGED <<jobs, files, nextId, inflight, probe>>

\* a faulty variant: the upload is stored as the job's input file
CompleteJob_overInput(id) ==
    /\ ncalls < MaxCalls
    /\ id \in DOMAIN jobs
    /\ files' = files \cup {Path(id, "output.f3d")}
    /\ jobs' = [jobs EXCEPT
           ![id].status = "completed",
           ![id].input_file = Path(id, "output.f3d"),
           ![id].output_file = Path(id, "output.f3d"),
           ![id].phase = "completed"]
    /\ resp' = [endpoint |-> "complete_job", job |-> id, result |-> "success"]
    /\ ncalls' = ncalls + 1
    /\ UNCHANGED <<nextId, inflight, probe>>

CompleteJob(id) ==
    /\ ncalls < MaxCalls
    /\ id \in DOMAIN jobs
    /\ files' = files \cup {Path(id, "output.f3d")}
    /\ jobs' = [jobs EXCEPT
           ![id].status = "completed",
           ![id].output_file = Path(id, "output.f3d"),
           ![id].phase = "completed"]
    /\ resp' = [endpoint |-> "complete_job", job |-> id, result |-> "success"]
    /\ ncalls' = ncalls + 1
    /\ UNCHANGED <<nextId, inflight, probe>>

\* ------------------------------------------------- retry_failed_operations
\* a faulty variant: the report is not partitioned
Failed_all(results) == results

\* failed = [r for r in execution_results if not r.get('success')]
Failed(results) == SelectSeq(results, LAMBDA r : ~r.success)

\* the context entry built for one failed result; an operation of these
\* reports has no "params" key, so op.get('params') is None
RetryEntry(f) ==
    [operation_type |-> f.operation.type, original_params |-> Null,
     error_message |-> f.error, original_reasoning |-> f.operation.reasoning]

\* retry_analysis: the failure context that goes into both LLM prompts
RetryAnalysis(failed) == [i \in 1..Len(failed) |-> RetryEntry(failed[i])]

RetryNotFound(id) ==
    /\ ncalls < MaxCalls
    /\ id \notin DOMAIN jobs
    /\ resp' = NotFound("retry_failed_operations", id)
    /\ ncalls' = ncalls + 1
    /\ UNCHANGED <<jobs, files, nextId, inflight, probe>>

RetryNoResults(id) ==
    /\ ncalls < MaxCalls
    /\ id \in DOMAIN jobs
    /\ resp' = [endpoint |-> "retry_failed_operations", job |-> id,
                result |-> "error", error |-> "No execution results provided"]
    /\ ncalls' = ncalls + 1
    /\ UNCHANGED <<jobs, files, nextId, inflight, probe>>

\* a faulty variant: storing the retry operations also completes the job
RetryStore_completes(id, results, retry_ops) ==
    /\ jobs' = [jobs EXCEPT
           ![id].retry_operations = retry_ops,
           ![id].status = "completed",
           ![id].phase = "retry_ready"]
    /\ resp' = [endpoint |-> "retry_failed_operations", job |-> id,
                result |-> "success", report |-> results,
                failed |-> Failed(results),
                retry_operations |-> retry_ops.operations,
                count |-> Len(retry_ops.operations)]

\* what the endpoint stores and answers once Phase 3 has returned retry_ops
RetryStore(id, results, retry_ops) ==
    /\ jobs' = [jobs EXCEPT
           ![id].retry_operations = retry_ops,
           ![id].phase = "retry_ready"]
    /\ resp' = [endpoint |-> "retry_failed_operations", job |-> id,
                result |-> "success", report |-> results,
                failed |-> Failed(results),
                retry_operations |-> retry_ops.operations,
                count |-> Len(retry_ops.operations)]

\* no result failed: Phase 3 returns {"operations": []} without an LLM call
RetryNothingFailed(id, results) ==
    /\ ncalls < MaxCalls
    /\ id \in DOMAIN jobs
    /\ results # <<>>
    /\ Failed(results) = <<>>
    /\ RetryStore(id, results, Plan(<<>>))
    /\ ncalls' = ncalls + 1
    /\ UNCHANGED <<files, nextId, inflight, probe>>

\* job.get("model_analysis", {}) as evaluated when Phase 3 is called
RetryModelAnalysis(job) ==
    IF job.model_analysis = Absent THEN EmptyAnalysis ELSE job.model_analysis

\* some result failed: up to the await of Phase 3's LLM calls
RetryStart(s, id, results) ==
    /\ ncalls < MaxCalls
    /\ id \in DOMAIN jobs
    /\ Failed(results) # <<>>
    /\ FreeSlot(s)
    /\ inflight' = [inflight EXCEPT ![s] =
           [k |-> "call", endpoint |-> "retry_failed_operations", pc |-> "phase3",
            job |-> id, results |-> results,
            retry_analysis |-> RetryAnalysis(Failed(results)),
            model_analysis |-> RetryModelAnalysis(jobs[id])]]
    /\ ncalls' = ncalls + 1
    /\ UNCHANGED <<jobs, files, nextId, resp, probe>>

\* Phase 3 returned; model_analysis.get('bounding_box', {}) raises on None
RetryFinish(s, reply) ==
    /\ IsAt(s, "retry_failed_operations", "phase3")
    /\ LET c == inflight[s] IN
           IF c.model_analysis = Null
           THEN /\ resp' = [endpoint |-> "retry_failed_operations", job |-> c.job,
                            result |-> "raised"]
                /\ UNCHANGED jobs
           ELSE RetryStore(c.job, c.results, reply)
    /\ inflight' = [inflight EXCEPT ![s] = Idle]
    /\ UNCHANGED <<files, nextId, ncalls, probe>>

\* --------------------------------------------------------------- poll_jobs
\* a faulty variant: the first view also selects the jobs that are ready
AwaitingAnalysis_anyPending ==
    [id \in {i \in DOMAIN jobs : jobs[i].status \in {"pending_analysis", "pending"}} |->
        [status |-> jobs[id].status, phase |-> jobs[id].phase,
         text_command |-> jobs[id].text_command,
         input_file |-> jobs[id].input_file,
         design_intent |-> jobs[id].design_intent,
         preliminary_operations |-> jobs[id].preliminary_operations]]

\* a faulty variant: the first view copies the stored analysis as well
AwaitingAnalysis_withAnalysis ==
    [id \in {i \in DOMAIN jobs : jobs[i].status = "pending_analysis"} |->
        [status |-> jobs[id].status, phase |-> jobs[id].phase,
         text_command |-> jobs[id].text_command,
         input_file |-> jobs[id].input_file,
         design_intent |-> jobs[id].design_intent,
         preliminary_operations |-> jobs[id].preliminary_operations,
         model_analysis |-> jobs[id].model_analysis]]

AwaitingAnalysis ==
    [id \in {i \in DOMAIN jobs : jobs[i].status = "pending_analysis"} |->
        [status |-> jobs[id].status, phase |-> jobs[id].phase,
         text_command |-> jobs[id].text_command,
         input_file |-> jobs[id].input_file,
         design_intent |-> jobs[id].design_intent,
         preliminary_operations |-> jobs[id].preliminary_operations]]

ReadyForExecution ==
    [id \in {i \in DOMAIN jobs : jobs[i].status = "pending"} |->
        [status |-> jobs[id].status, phase |-> jobs[id].phase,
         text_command |-> jobs[id].text_command,
         input_file |-> jobs[id].input_file,
         final_operations |-> jobs[id].final_operations]]

\* a read-only handler: its response is the two views of the current store;
\* v["design_intent"] must exist on every job awaiting analysis
PollJobs ==
    /\ ncalls < MaxCalls
    /\ \A id \in DOMAIN AwaitingAnalysis : AwaitingAnalysis[id].design_intent # Absent
    /\ resp' = [endpoint |-> "poll_jobs", result |-> "returned",
                awaiting_analysis |-> AwaitingAnalysis,
                ready_for_execution |-> ReadyForExecution]
    /\ ncalls' = ncalls + 1
    /\ UNCHANGED <<jobs, files, nextId, inflight, probe>>

\* ---------------------------------------------------------- get_job_status
GetJobStatusNotFound(id) ==
    /\ ncalls < MaxCalls
    /\ id \notin DOMAIN jobs
    /\ resp' = NotFound("get_job_status", id)
    /\ ncalls' = ncalls + 1
    /\ UNCHANGED <<jobs, files, nextId, inflight, probe>>

\* return jobs[job_id] : the whole job dict
GetJobStatus(id) ==
    /\ ncalls < MaxCalls
    /\ id \in DOMAIN jobs
    /\ resp' = [endpoint |-> "get_job_status", job |-> id, result |-> "returned",
                body |-> jobs[id]]
    /\ ncalls' = ncalls + 1
    /\ UNCHANGED <<jobs, files, nextId, inflight, probe>>

\* --------------------------------------------------------- download_result
\* a faulty variant: the status test left out
DownloadReady_anyStatus(id) == id \in DOMAIN jobs

\* not (job_id not in jobs or jobs[job_id]["status"] != "completed")
DownloadReady(id) == id \in DOMAIN jobs /\ jobs[id].status = "completed"

DownloadNotReady(id) ==
    /\ ncalls < MaxCalls
    /\ ~DownloadReady(id)
    /\ resp' = [endpoint |-> "download_result", job |-> id, result |-> "error",
                error |-> "Job not ready"]
    /\ ncalls' = ncalls + 1
    /\ UNCHANGED <<jobs, files, nextId, inflight, probe>>

\* FileResponse(jobs[job_id]["output_file"])
DownloadResult(id) ==
    /\ ncalls < MaxCalls
    /\ DownloadReady(id)
    /\ resp' = [endpoint |-> "download_result", job |-> id, result |-> "file",
                file |-> jobs[id].output_file]
    /\ ncalls' = ncalls + 1
    /\ UNCHANGED <<jobs, files, nextId, inflight, probe>>

\* ----------------------------------------------------------- specification
Next ==
    \/ \E s \in Slots, c \in Commands : SubmitJobStart(s, c)
    \/ \E s \in Slots, r \in Phase1Replies : SubmitJobPhase1Failed(s, r)
    \/ \E s \in Slots, r \in Phase1Replies : SubmitJobPhase1Ok(s, r)
    \/ \E s \in Slots, r \in PlanReplies : SubmitJobPhase2(s, r)
    \/ \E id \in AddressedIds : SubmitAnalysisNotFound(id)
    \/ \E id \in AddressedIds, a \in Analyses : SubmitAnalysisKeyError(id, a)
    \/ \E s \in Slots, id \in AddressedIds, a \in Analyses : SubmitAnalysisStart(s, id, a)
    \/ \E s \in Slots, r \in PlanReplies : SubmitAnalysisFinish(s, r)
    \/ \E id \in AddressedIds : CompleteJobNotFound(id)
    \/ \E id \in AddressedIds : CompleteJob(id)
    \/ \E id \in AddressedIds : RetryNotFound(id)
    \/ \E id \in AddressedIds : RetryNoResults(id)
    \/ \E id \in AddressedIds, x \in ExecutionReports : RetryNothingFailed(id, x)
    \/ \E s \in Slots, id \in AddressedIds, x \in ExecutionReports : RetryStart(s, id, x)
    \/ \E s \in Slots, r \in PlanReplies : RetryFinish(s, r)
    \/ PollJobs
    \/ \E id \in AddressedIds : GetJobStatusNotFound(id)
    \/ \E id \in AddressedIds : GetJobStatus(id)
    \/ \E id \in AddressedIds : DownloadNotReady(id)
    \/ \E id \in AddressedIds : DownloadResult(id)

Spec == Init /\ [][Next]_vars

\* ------------------------------------- Phase 2 alone, as a pure function
FilterOpKinds ==
    {OpKind(t, "text") : t \in {"shell_body", "add_ribs", "strategic_holes",
                                "ventilation", "fillet_all_edges"}}

FilterReplies == {TransportError} \cup Plans(FilterOpKinds, MaxFilterOps)

FilterPartTypes ==
    {Absent, Null, Str(PT_LBracket), Str(PT_HOOK), Str(PT_clipmount),
     Str(PT_hanger_enclosure), Str(PT_Housing), Str(PT_enclosure),
     Str(PT_decorative)}

FilterUseCases == {Absent, Str(UC_box), Str(UC_Electronics), Str(UC_COOLING)}

Phase2Init ==
    /\ InitStore
    /\ probe \in [fn : {"phase2_generate_operations"},
                  design_plan : {Intent(pt, uc) : pt \in FilterPartTypes,
                                                 uc \in FilterUseCases},
                  model_analysis : {Null} \cup Analyses,
                  reply : FilterReplies,
                  result : {Absent},
                  again : {Absent}]

Phase2Apply ==
    /\ probe.fn = "phase2_generate_operations"
    /\ probe.result = Absent
    /\ probe' = [probe EXCEPT !.result =
           Phase2Result(probe.design_plan, probe.model_analysis, probe.reply)]
    /\ UNCHANGED <<jobs, files, nextId, inflight, resp, ncalls>>

\* a second call with the same design plan and analysis whose JSON call
\* replies with what the first call returned
Phase2Reapply ==
    /\ probe.fn = "phase2_generate_operations"
    /\ probe.result \notin {Absent, Raised}
    /\ probe.again = Absent
    /\ probe' = [probe EXCEPT !.again =
           Phase2Result(probe.design_plan, probe.model_analysis, probe.result)]
    /\ UNCHANGED <<jobs, files, nextId, inflight, resp, ncalls>>

Phase2Next == Phase2Apply \/ Phase2Reapply

Phase2Spec == Phase2Init /\ [][Phase2Next]_vars

\* ---------------------------------------- the add-in: _poll_loop and its tasks
\* src/fusion_AddIn/InteliCAD.py.  The poll thread runs the tasks itself
\* (_run_on_main calls fn() directly), so one thread interleaves only with
\* stop(), which sets the stop flag from Fusion's thread.  The backend is the
\* thread's environment: each poll, report and upload is answered by one of
\* the responses APIClient can return (it turns every network error into a
\* dict).  The state of the thread is the record probe.
MaxPolls == 2

\* job_info["final_operations"]["operations"] of the jobs the backend lists as
\* ready: no operation, one, two, and two of which the first has
\* "reasoning": null
AddInPlans ==
    {<<>>,
     <<Op(1, "shell_body", "text")>>,
     <<Op(1, "shell_body", "text"), Op(2, "add_ribs", "text")>>,
     <<Op(1, "shell_body", "null"), Op(2, "add_ribs", "text")>>}

\* retry_result.get("retry_operations", []) : nothing (also on a network
\* error), one operation, or two of which the first has "reasoning": null
RetryResponses ==
    {<<>>,
     <<Op(1, "shell_body", "text")>>,
     <<Op(1, "shell_body", "null"), Op(2, "add_ribs", "text")>>}

NoTask == [stage |-> "none"]

ZeroPerJob == [j \in JobIds |-> 0]

\* the thread at the head of its main loop, just started by run()
AddInInit ==
    /\ InitStore
    /\ probe \in [fn : {"_poll_loop"}, pc : {"while"}, stop : {FALSE},
                  stop_in_loop : {FALSE},
                  poll_count : {0}, analyzed : {{}}, executed : {{}},
                  awaiting : {{}}, ready : {{}},
                  task : {NoTask},
                  analyses : {ZeroPerJob}, executions : {ZeroPerJob},
                  reports : {ZeroPerJob}, exports : {ZeroPerJob},
                  completes : {ZeroPerJob}]

InAddIn(pc) == probe.fn = "_poll_loop" /\ probe.pc = pc

\* stop(): _stop_event.set(); stop_in_loop remembers whether the thread was
\* in the operation loop of an execution task at that moment
Stop ==
    /\ probe.fn = "_poll_loop"
    /\ ~probe.stop
    /\ probe' = [probe EXCEPT
           !.stop = TRUE,
           !.stop_in_loop = probe.pc = "task" /\ probe.task.stage = "operations"]
    /\ UNCHANGED <<jobs, files, nextId, inflight, resp, ncalls>>

\* while not _stop_event.is_set(): the flag is set, the loop ends
LoopExit ==
    /\ InAddIn("while")
    /\ probe.stop
    /\ probe' = [probe EXCEPT !.pc = "exited"]
    /\ UNCHANGED <<jobs, files, nextId, inflight, resp, ncalls>>

\* the flag is clear: a new cycle, poll_count += 1; nothing is left of the
\* tasks of the cycle before but _analyzed, _executed and the calls made
LoopEnter ==
    /\ InAddIn("while")
    /\ ~probe.stop
    /\ probe.poll_count < MaxPolls
    /\ probe' = [probe EXCEPT !.pc = "poll", !.poll_count = @ + 1, !.task = NoTask]
    /\ UNCHANGED <<jobs, files, nextId, inflight, resp, ncalls>>

\* where the cycle goes on once `awaiting` and `ready` jobs are left to visit
Continue(awaiting, ready) ==
    IF awaiting # {} THEN "awaiting" ELSE IF ready # {} THEN "ready" ELSE "sleep"

\* client.poll_jobs() returned a dict with "error" (a network error): the
\* cycle sleeps and continues
PollError ==
    /\ InAddIn("poll")
    /\ probe' = [probe EXCEPT !.pc = "sleep"]
    /\ UNCHANGED <<jobs, files, nextId, inflight, resp, ncalls>>

\* client.poll_jobs() returned the two views
PollData(awaiting, ready) ==
    /\ InAddIn("poll")
    /\ awaiting \cap ready = {}
    /\ probe' = [probe EXCEPT !.awaiting = awaiting, !.ready = ready,
                              !.pc = Continue(awaiting, ready)]
    /\ UNCHANGED <<jobs, files, nextId, inflight, resp, ncalls>>

\* time.sleep(POLL_INTERVAL), then back to the loop test
Sleep ==
    /\ InAddIn("sleep")
    /\ probe' = [probe EXCEPT !.pc = "while"]
    /\ UNCHANGED <<jobs, files, nextId, inflight, resp, ncalls>>

\* the job a for loop over a view visits next (dict order: creation order)
NextJob(view) == CHOOSE j \in view : \A k \in view : j <= k

\* a faulty variant: the execution loop forgets which jobs it dispatched
AlreadyExecuted_never(j) == FALSE

\* job_id in _analyzed, job_id in _executed
AlreadyAnalyzed(j) == j \in probe.analyzed
AlreadyExecuted(j) == j \in probe.executed

\* for job_id, info in awaiting.items(): a job already analyzed is passed over
AnalysisSkip ==
    /\ InAddIn("awaiting")
    /\ LET j == NextJob(probe.awaiting) IN
        /\ AlreadyAnalyzed(j)
        /\ probe' = [probe EXCEPT !.awaiting = @ \ {j},
                                  !.pc = Continue(probe.awaiting \ {j}, probe.ready)]
    /\ UNCHANGED <<jobs, files, nextId, inflight, resp, ncalls>>

\* _analyzed.add(job_id), then _do_analysis to its end: it returns, or raises
\* into _run_on_main, which logs the exception
AnalysisDispatch(outcome) ==
    /\ InAddIn("awaiting")
    /\ LET j == NextJob(probe.awaiting) IN
        /\ ~AlreadyAnalyzed(j)
        /\ probe' = [probe EXCEPT !.analyzed = @ \cup {j},
                                  !.analyses[j] = @ + 1,
                                  !.task = [stage |-> outcome, kind |-> "analysis", job |-> j],
                                  !.awaiting = @ \ {j},
                                  !.pc = Continue(probe.awaiting \ {j}, probe.ready)]
    /\ UNCHANGED <<jobs, files, nextId, inflight, resp, ncalls>>

\* for job_id, info in ready.items(): a job already executed is passed over
ExecutionSkip ==
    /\ InAddIn("ready")
    /\ LET j == NextJob(probe.ready) IN
        /\ AlreadyExecuted(j)
        /\ probe' = [probe EXCEPT !.ready = @ \ {j},
                                  !.pc = Continue({}, probe.ready \ {j})]
    /\ UNCHANGED <<jobs, files, nextId, inflight, resp, ncalls>>

ExecutionTask(j, stage, operations) ==
    [stage |-> stage, kind |-> "execution", job |-> j, operations |-> operations,
     execution_results |-> <<>>, retry_ops |-> <<>>, retry_results |-> <<>>]

\* _executed.add(job_id), then _do_execution up to its operation loop, for the
\* operations that this cycle's poll listed for the job: it returns at once
\* for an empty operation list or without an active design
ExecutionDispatch(operations, design) ==
    /\ InAddIn("ready")
    /\ LET j == NextJob(probe.ready)
           returns == operations = <<>> \/ ~design
       IN
        /\ ~AlreadyExecuted(j)
        /\ probe' = [probe EXCEPT
               !.executed = @ \cup {j},
               !.executions[j] = @ + 1,
               !.ready = @ \ {j},
               !.task = ExecutionTask(j, IF returns THEN "returned" ELSE "operations",
                                      operations),
               !.pc = IF returns THEN Continue({}, probe.ready \ {j}) ELSE "task"]
    /\ UNCHANGED <<jobs, files, nextId, inflight, resp, ncalls>>

InTask(stage) == InAddIn("task") /\ probe.task.stage = stage

\* a faulty variant: an exception of the task is not caught and ends the
\* thread
EndTask_uncaught(stage) ==
    [probe EXCEPT !.task.stage = stage,
                  !.pc = IF stage = "raised" THEN "exited" ELSE Continue({}, probe.ready)]

\* the task ends (return, or an exception logged by _run_on_main): back to
\* the for loop over the ready view
EndTask(stage) ==
    [probe EXCEPT !.task.stage = stage, !.pc = Continue({}, probe.ready)]

\* op.get('reasoning', 'N/A')[:70] raises TypeError when reasoning is null
LogRaises(op) == op.reasoning = "null"

\* the entry appended to execution_results for an executed operation
Executed(op, success) == [operation |-> op, success |-> success]

\* one pass of the operation loop: log, executor.execute(op), append
ExecuteOperation(success) ==
    /\ InTask("operations")
    /\ LET t == probe.task
           op == t.operations[Len(t.execution_results) + 1]
           results == Append(t.execution_results, Executed(op, success))
       IN  probe' =
             IF LogRaises(op) THEN EndTask("raised")
             ELSE [probe EXCEPT
                     !.task.execution_results = results,
                     !.task.stage =
                         IF Len(results) < Len(t.operations) THEN "operations"
                         ELSE IF \E i \in 1..Len(results) : ~results[i].success
                              THEN "report" ELSE "save"]
    /\ UNCHANGED <<jobs, files, nextId, inflight, resp, ncalls>>

\* failed_count > 0: client.retry_failed_operations(job_id, execution_results)
ReportFailures(retry_ops) ==
    /\ InTask("report")
    /\ probe' = [probe EXCEPT
           !.reports[probe.task.job] = @ + 1,
           !.task.retry_ops = retry_ops,
           !.task.stage = IF retry_ops = <<>> THEN "save" ELSE "retry"]
    /\ UNCHANGED <<jobs, files, nextId, inflight, resp, ncalls>>

\* a faulty variant: a retry that fails again is reported for another round
ExecuteRetry_reportsAgain(success) ==
    /\ InTask("retry")
    /\ LET t == probe.task
           op == t.retry_ops[Len(t.retry_results) + 1]
           results == Append(t.retry_results, Executed(op, success))
       IN  probe' =
             IF LogRaises(op) THEN [probe EXCEPT !.task.stage = "save"]
             ELSE [probe EXCEPT
                     !.task.retry_results = IF success THEN results ELSE <<>>,
                     !.task.stage = IF ~success THEN "report"
                                    ELSE IF Len(results) < Len(t.retry_ops)
                                    THEN "retry" ELSE "save"]
    /\ UNCHANGED <<jobs, files, nextId, inflight, resp, ncalls>>

\* one pass of the retry loop; an exception in it is caught by the try around
\* Phase 3 and the task goes on to save
ExecuteRetry(success) ==
    /\ InTask("retry")
    /\ LET t == probe.task
           op == t.retry_ops[Len(t.retry_results) + 1]
           results == Append(t.retry_results, Executed(op, success))
       IN  probe' =
             IF LogRaises(op) THEN [probe EXCEPT !.task.stage = "save"]
             ELSE [probe EXCEPT
                     !.task.retry_results = results,
                     !.task.stage = IF Len(results) < Len(t.retry_ops)
                                    THEN "retry" ELSE "save"]
    /\ UNCHANGED <<jobs, files, nextId, inflight, resp, ncalls>>

\* _save_f3d: the export worked, or it returned None and the task returns
SaveOutput(exported) ==
    /\ InTask("save")
    /\ probe' = IF exported
                THEN [probe EXCEPT !.exports[probe.task.job] = @ + 1,
                                   !.task.stage = "upload"]
                ELSE EndTask("returned")
    /\ UNCHANGED <<jobs, files, nextId, inflight, resp, ncalls>>

\* client.complete_job(job_id, output_path): answered with success or with an
\* error dict; either way the task ends
UploadOutput(status) ==
    /\ InTask("upload")
    /\ probe' = [EndTask(status) EXCEPT !.completes[probe.task.job] = @ + 1]
    /\ UNCHANGED <<jobs, files, nextId, inflight, resp, ncalls>>

AddInThread ==
    \/ LoopExit
    \/ LoopEnter
    \/ PollError
    \/ \E awaiting \in SUBSET JobIds :
           \E ready \in SUBSET (JobIds \ awaiting) : PollData(awaiting, ready)
    \/ Sleep
    \/ AnalysisSkip
    \/ \E outcome \in {"returned", "raised"} : AnalysisDispatch(outcome)
    \/ ExecutionSkip
    \/ \E operations \in AddInPlans, design \in BOOLEAN :
           ExecutionDispatch(operations, design)
    \/ \E success \in BOOLEAN : ExecuteOperation(success)
    \/ \E retry_ops \in RetryResponses : ReportFailures(retry_ops)
    \/ \E success \in BOOLEAN : ExecuteRetry(success)
    \/ \E exported \in BOOLEAN : SaveOutput(exported)
    \/ \E status \in {"success", "error"} : UploadOutput(status)

AddInNext == Stop \/ AddInThread

AddInSpec == AddInInit /\ [][AddInNext]_vars

\* ===================================================== _parse_nemotron_json
\* A reply text is a sequence of tokens, each standing for a piece of text
\* that no step of the parser cuts: "<think>", "</think>", "fence-json" (three
\* backquotes and json), "fence" (three backquotes),
\* "{", "}", ",", "//", "/*", "*/", "q" (a double quote), "nl" (a newline), "sp" (a
\* space), "a" (a word), "ops:" ("operations":), "sum:" ("summary":), "[]",
\* and "Deep": brackets nested deeper than the interpreter's recursion limit
\* (a text of more than 1500 characters).

RawKept == 1500
SummaryKept == 200

\* len() of the text a token stands for; more than RawKept for "Deep"
CharLen(t) ==
    CASE t = "<think>" -> 7 [] t = "</think>" -> 8 [] t = "fence-json" -> 7
      [] t = "fence" -> 3 [] t = "//" -> 2 [] t = "[]" -> 2
      [] t = "/*" -> 2 [] t = "*/" -> 2
      [] t = "ops:" -> 13 [] t = "sum:" -> 10
      [] t = "Deep" -> RawKept + 1
      [] OTHER -> 1

\* raw[:n] : the tokens that fit whole, and how many characters of the next
\* token are kept
RECURSIVE Prefix(_, _)
Prefix(raw, n) ==
    IF raw = <<>> \/ n = 0 THEN [whole |-> <<>>, cut |-> 0]
    ELSE IF CharLen(Head(raw)) > n THEN [whole |-> <<>>, cut |-> n]
    ELSE LET rest == Prefix(Tail(raw), n - CharLen(Head(raw)))
         IN  [whole |-> <<Head(raw)>> \o rest.whole, cut |-> rest.cut]

\* text.find: the least index from i on of a token of toks, 0 for none
Find(text, toks, i) ==
    LET at == {k \in i..Len(text) : text[k] \in toks}
    IN  IF at = {} THEN 0 ELSE CHOOSE k \in at : \A j \in at : k <= j

From(text, i) == SubSeq(text, i, Len(text))

\* re.sub(r'<think>.*?</think>', '', text)
RECURSIVE RemoveThinkBlocks(_)
RemoveThinkBlocks(text) ==
    LET open == Find(text, {"<think>"}, 1)
        close == Find(text, {"</think>"}, open + 1)
    IN  IF open = 0 \/ close = 0 THEN text
        ELSE SubSeq(text, 1, open - 1) \o RemoveThinkBlocks(From(text, close + 1))

\* re.sub(r'<think>.*', '', text) : an unclosed block, to the end of the text
RemoveUnclosedThink(text) ==
    LET open == Find(text, {"<think>"}, 1)
    IN  IF open = 0 THEN text ELSE SubSeq(text, 1, open - 1)

IsSpace(t) == t \in {"sp", "nl"}

\* str.strip()
Strip(text) ==
    LET solid == {i \in 1..Len(text) : ~IsSpace(text[i])}
    IN  IF solid = {} THEN <<>>
        ELSE SubSeq(text, CHOOSE i \in solid : \A j \in solid : i <= j,
                          CHOOSE i \in solid : \A j \in solid : j <= i)

Fences == {"fence", "fence-json"}

\* step 2: the text inside the first json fence, else between the first two
\* fences, else the text as it is
ExtractFenced(text) ==
    LET json == Find(text, {"fence-json"}, 1)
        after == From(text, json + 1)
        stop == Find(after, Fences, 1)
        first == Find(text, {"fence"}, 1)
        second == Find(text, {"fence"}, first + 1)
    IN  IF json # 0
        THEN Strip(IF stop = 0 THEN after ELSE SubSeq(after, 1, stop - 1))
        ELSE IF first # 0 /\ second # 0
        THEN Strip(SubSeq(text, first + 1, second - 1))
        ELSE text

\* step 3: the index of the brace that brings brace_count back to 0, 0 for
\* none (end == -1); quotes are not looked at
RECURSIVE MatchingBrace(_, _, _)
MatchingBrace(text, i, brace_count) ==
    IF i > Len(text) THEN 0
    ELSE IF text[i] = "{" THEN MatchingBrace(text, i + 1, brace_count + 1)
    ELSE IF text[i] = "}"
         THEN IF brace_count = 1 THEN i ELSE MatchingBrace(text, i + 1, brace_count - 1)
    ELSE MatchingBrace(text, i + 1, brace_count)

\* re.sub(r'//[^\n]*', '', text)
RECURSIVE RemoveLineComments(_)
RemoveLineComments(text) ==
    LET slashes == Find(text, {"//"}, 1)
        newline == Find(text, {"nl"}, slashes + 1)
    IN  IF slashes = 0 THEN text
        ELSE IF newline = 0 THEN SubSeq(text, 1, slashes - 1)
        ELSE SubSeq(text, 1, slashes - 1) \o RemoveLineComments(From(text, newline))

\* re.sub(r'/\*.*?\*/', '', text, flags=re.DOTALL) : from each "/*" to the
\* next "*/"
RECURSIVE RemoveBlockComments(_)
RemoveBlockComments(text) ==
    LET open == Find(text, {"/*"}, 1)
        close == IF open = 0 THEN 0 ELSE Find(text, {"*/"}, open + 1)
    IN  IF open = 0 \/ close = 0 THEN text
        ELSE SubSeq(text, 1, open - 1) \o RemoveBlockComments(From(text, close + 1))

\* the index after the white space that starts at i
SkipSpace(text, i) ==
    LET solid == {j \in i..Len(text) : ~IsSpace(text[j])}
    IN  IF solid = {} THEN Len(text) + 1 ELSE CHOOSE j \in solid : \A k \in solid : j <= k

\* re.sub(r',\s*([}\]])', r'\1', text) : a comma, and the white space after
\* it, in front of a closing brace
RECURSIVE RemoveTrailingCommas(_)
RemoveTrailingCommas(text) ==
    IF text = <<>> THEN <<>>
    ELSE LET next == SkipSpace(text, 2)
         IN  IF Head(text) = "," /\ next <= Len(text) /\ text[next] = "}"
             THEN RemoveTrailingCommas(From(text, next))
             ELSE <<Head(text)>> \o RemoveTrailingCommas(Tail(text))

\* step 4
CleanJson(text) ==
    RemoveTrailingCommas(RemoveBlockComments(RemoveLineComments(text)))

\* outcomes of json.loads: a value and the index after it, JSONDecodeError,
\* or RecursionError (the decoder recurses once per nesting level and is
\* stopped by the interpreter's recursion limit)
Decoded(value, next) == [k |-> "decoded", value |-> value, next |-> next]
JSONDecodeError == [k |-> "JSONDecodeError"]
RecursionError == [k |-> "RecursionError"]

JsonKeys == {"ops:", "sum:"}
JsonList == [k |-> "list", items |-> <<>>]
JsonObject(members) == [k |-> "object", members |-> members]

\* a string from the quote at i to the next quote; a raw newline in it is an
\* invalid control character
DecodeString(text, i) ==
    LET close == Find(text, {"q"}, i + 1)
    IN  IF close = 0 \/ \E j \in (i + 1)..(close - 1) : text[j] = "nl"
        THEN JSONDecodeError
        ELSE Decoded(Str(SubSeq(text, i + 1, close - 1)), close + 1)

RECURSIVE DecodeValue(_, _)
RECURSIVE DecodeMembers(_, _, _)

\* the members of an object from the key at i on; a repeated key keeps its
\* last value
DecodeMembers(text, i, members) ==
    IF i > Len(text) \/ text[i] \notin JsonKeys THEN JSONDecodeError
    ELSE LET v == DecodeValue(text, SkipSpace(text, i + 1))
             next == SkipSpace(text, v.next)
             all == (text[i] :> v.value) @@ members
         IN  IF v.k # "decoded" THEN v
             ELSE IF next > Len(text) THEN JSONDecodeError
             ELSE IF text[next] = "}" THEN Decoded(JsonObject(all), next + 1)
             ELSE IF text[next] = ","
                  THEN DecodeMembers(text, SkipSpace(text, next + 1), all)
             ELSE JSONDecodeError

\* the value that starts at i, scanned from left to right
DecodeValue(text, i) ==
    IF i > Len(text) THEN JSONDecodeError
    ELSE IF text[i] = "[]" THEN Decoded(JsonList, i + 1)
    ELSE IF text[i] = "Deep" THEN RecursionError
    ELSE IF text[i] = "q" THEN DecodeString(text, i)
    ELSE IF text[i] = "{"
         THEN LET first == SkipSpace(text, i + 1)
              IN  IF first <= Len(text) /\ text[first] = "}"
                  THEN Decoded(JsonObject(<<>>), first + 1)
                  ELSE DecodeMembers(text, first, <<>>)
    ELSE JSONDecodeError

\* json.loads(text): one value, then nothing but white space
JsonLoads(text) ==
    LET v == DecodeValue(text, SkipSpace(text, 1))
    IN  IF v.k = "decoded" /\ SkipSpace(text, v.next) <= Len(text)
        THEN JSONDecodeError ELSE v

\* what the parser returns, and what it does when an exception leaves it
Returned(dict) == [k |-> "returned", dict |-> dict]
Raises(exception) == [k |-> "raised", exception |-> exception]

\* the degraded result of the three failure returns
Degraded(raw, error, summary) ==
    [k |-> "degraded", operations |-> <<>>, error |-> error,
     raw_response |-> Prefix(raw, RawKept), summary |-> summary]

\* _parse_nemotron_json(raw). Step 6 (json5, when it is installed) is given
\* a text that json.loads refused; no text of these tokens is valid JSON5
\* and not valid JSON, so step 6 fails or is skipped and step 7 returns.
ParseNemotronJson(raw) ==
    LET text == ExtractFenced(RemoveUnclosedThink(RemoveThinkBlocks(raw)))
        start == Find(text, {"{"}, 1)
        end == MatchingBrace(text, start, 0)
        loaded == JsonLoads(CleanJson(SubSeq(text, start, end)))
    IN  IF start = 0 THEN Returned(Degraded(raw, "No JSON object found", Absent))
        ELSE IF end = 0 THEN Returned(Degraded(raw, "Incomplete JSON object", Absent))
        ELSE IF loaded.k = "decoded" THEN Returned(loaded.value)
        ELSE IF loaded.k = "RecursionError" THEN Raises("RecursionError")
        ELSE Returned(Degraded(raw, "Could not parse Nemotron JSON response",
                               Prefix(raw, SummaryKept)))

\* ------------------------------------------------------- replies to parse
MaxProse == 2
MaxMembers == 2

\* what the model writes around the JSON: words, reasoning tags, a brace
ProseTokens == {"a", "<think>", "</think>", "{"}

Member(key, value) == [key |-> key, value |-> value]

\* members of the objects a reply carries: "operations": [], and "summary"
\* with a word, with an address (a word, two slashes, a word), with a
\* closing brace and with a word between "/*" and "*/" in its text
MemberKinds ==
    {Member("ops:", JsonList),
     Member("sum:", Str(<<"a">>)),
     Member("sum:", Str(<<"a", "//", "a">>)),
     Member("sum:", Str(<<"}">>)),
     Member("sum:", Str(<<"/*", "a", "*/">>))}

\* json.dumps of a value, of a member, and of an object given by its members
ValueText(value) ==
    IF value.k = "list" THEN <<"[]">> ELSE <<"q">> \o value.s \o <<"q">>

MemberText(m) == <<m.key, "sp">> \o ValueText(m.value)

RECURSIVE MembersText(_)
MembersText(ms) ==
    IF ms = <<>> THEN <<>>
    ELSE IF Len(ms) = 1 THEN MemberText(ms[1])
    ELSE MemberText(ms[1]) \o <<",", "sp">> \o MembersText(Tail(ms))

ObjectText(ms) == <<"{">> \o MembersText(ms) \o <<"}">>

\* the object that the members ms denote: each key with its last value
ObjectOf(ms) ==
    JsonObject([key \in {ms[i].key : i \in 1..Len(ms)} |->
        LET last == CHOOSE i \in 1..Len(ms) :
                        /\ ms[i].key = key
                        /\ \A j \in 1..Len(ms) : ms[j].key = key => j <= i
        IN  ms[last].value])

\* a well-formed object, given by its members
ObjectBody(ms) == [kind |-> "object", members |-> ms, text |-> ObjectText(ms)]

\* other things in the place of the object: nothing, an unclosed object,
\* words in braces, an object with a trailing comma, with a comment line,
\* and with brackets nested deeper than the recursion limit
OtherBody(text) == [kind |-> "other", members |-> <<>>, text |-> text]

OtherBodies ==
    {OtherBody(<<>>),
     OtherBody(<<"{", "ops:", "[]">>),
     OtherBody(<<"{", "a", "}">>),
     OtherBody(<<"{", "ops:", "[]", ",", "nl", "}">>),
     OtherBody(<<"{", "//", "a", "nl", "ops:", "[]", "}">>),
     OtherBody(<<"{", "ops:", "Deep", "}">>)}

Bodies == {ObjectBody(ms) : ms \in SeqsUpTo(MemberKinds, MaxMembers)} \cup OtherBodies

Opens == {<<>>, <<"fence-json", "nl">>, <<"fence", "nl">>}
Closes == {<<>>, <<"nl", "fence">>}
Trailings == {<<>>, <<"sp", "a">>, <<"}">>}

\* the reply text: prose, an opening fence, the body, a closing fence, and
\* trailing text
Raw(reply) == reply.prose \o reply.open \o reply.body.text \o reply.close \o reply.trailing

ParseInit ==
    /\ InitStore
    /\ probe \in [fn : {"_parse_nemotron_json"},
                  prose : SeqsUpTo(ProseTokens, MaxProse),
                  open : Opens,
                  body : Bodies,
                  close : Closes,
                  trailing : Trailings,
                  result : {Absent}]

ParseApply ==
    /\ probe.fn = "_parse_nemotron_json"
    /\ probe.result = Absent
    /\ probe' = [probe EXCEPT !.result = ParseNemotronJson(Raw(probe))]
    /\ UNCHANGED <<jobs, files, nextId, inflight, resp, ncalls>>

ParseNext == ParseApply

ParseSpec == ParseInit /\ [][ParseNext]_vars

\* ========================================== phase3_retry_failed_operations
MaxRetryOps == 2

\* an operation with its "params": wall_thickness in tenths of a millimetre
ParamOp(type, wall_thickness) ==
    [type |-> type, reasoning |-> "text", wall_thickness |-> wall_thickness]

\* the report of one failed shell_body with wall_thickness 2.0 and a
\* topology-change error
ShellFailedReport == <<ExecResult(ParamOp("shell_body", 20), FALSE)>>

Phase3Reports ==
    {ShellFailedReport,
     <<ExecResult(ParamOp("shell_body", 20), TRUE)>>,
     <<ExecResult(ParamOp("shell_body", 20), TRUE),
       ExecResult(ParamOp("fillet_all_edges", 0), FALSE)>>}

\* operations the JSON call of Phase 3 can reply with: shell_body with
\* thinner, equal and thicker walls, and another type
Phase3OpKinds ==
    {ParamOp("shell_body", 15), ParamOp("shell_body", 20),
     ParamOp("shell_body", 70), ParamOp("fillet_all_edges", 0)}

Phase3Replies ==
    {TransportError} \cup {Plan(ops) : ops \in SeqsUpTo(Phase3OpKinds, MaxRetryOps)}

\* phase3_retry_failed_operations(..., model_analysis, execution_results)
\* with `reply` the result of its JSON call: {"operations": []} when nothing
\* failed, an exception for model_analysis None, else the reply as it is
Phase3Result(model_analysis, execution_results, reply) ==
    IF Failed(execution_results) = <<>> THEN Plan(<<>>)
    ELSE IF model_analysis = Null THEN Raised
    ELSE reply

Phase3Init ==
    /\ InitStore
    /\ probe \in [fn : {"phase3_retry_failed_operations"},
                  model_analysis : {Null} \cup Analyses,
                  execution_results : Phase3Reports,
                  reply : Phase3Replies,
                  result : {Absent}]

Phase3Apply ==
    /\ probe.fn = "phase3_retry_failed_operations"
    /\ probe.result = Absent
    /\ probe' = [probe EXCEPT !.result =
           Phase3Result(probe.model_analysis, probe.execution_results, probe.reply)]
    /\ UNCHANGED <<jobs, files, nextId, inflight, resp, ncalls>>

Phase3Next == Phase3Apply

Phase3Spec == Phase3Init /\ [][Phase3Next]_vars

\* ================================================ OperationExecutor.execute
\* values of operation["type"]: a string, null, or a JSON array
TypeName(name) == [k |-> "str", name |-> name]

\* the keys of the handlers dict
HandlerTypes ==
    {"scale", "shell_body", "fillet", "fillet_edges", "fillet_all_edges",
     "mirror", "rotate", "move", "add_ribs", "pattern",
     "topology_optimization", "run_topology_optimization", "lattice_infill",
     "variable_wall_thickness", "variable_thickness", "apply_draft_angles",
     "draft_angles", "add_ventilation", "ventilation", "strategic_holes"}

\* the types handled by _topology_opt and _lattice
PlaceholderTypes ==
    {"topology_optimization", "run_topology_optimization", "lattice_infill"}

OperationTypes ==
    {TypeName(t) : t \in HandlerTypes \cup {"engrave"}} \cup {Absent, Null, JsonList}

SomeParams == [k |-> "dict", keys |-> 1]

\* the dict that execute returns
Success(message) == [success |-> TRUE, message |-> message, error |-> NoKey]
Failure(error) == [success |-> FALSE, message |-> NoKey, error |-> error]

\* a handler called with params, with the API calls it makes succeeding or
\* throwing: _topology_opt and _lattice only return a text; the others read
\* params (None has no .get) and call the Fusion API
Handler(name, params, fusion) ==
    IF name \in PlaceholderTypes THEN Returned("skipped")
    ELSE IF params = Null THEN Raises("AttributeError")
    ELSE IF fusion = "throws" THEN Raises("Exception")
    ELSE Returned("done")

\* execute(operation): handlers.get(op_type) raises TypeError for a type
\* that cannot be hashed, outside the try
Execute(operation, fusion) ==
    LET op_type == IF operation.type = Absent THEN TypeName("") ELSE operation.type
        params == IF operation.params = Absent THEN SomeParams ELSE operation.params
    IN  IF op_type.k = "list" THEN Raises("TypeError")
        ELSE IF op_type.k = "null" \/ op_type.name \notin HandlerTypes
        THEN Returned(Failure("not yet implemented"))
        ELSE LET message == Handler(op_type.name, params, fusion)
             IN  IF message.k = "returned"
                 THEN Returned(Success(message.dict))
                 ELSE Returned(Failure(message.exception))

ExecuteInit ==
    /\ InitStore
    /\ probe \in [fn : {"execute"},
                  operation : [type : OperationTypes,
                               params : {Absent, Null, SomeParams}],
                  fusion : {"returns", "throws"},
                  result : {Absent}]

ExecuteApply ==
    /\ probe.fn = "execute"
    /\ probe.result = Absent
    /\ probe' = [probe EXCEPT !.result = Execute(probe.operation, probe.fusion)]
    /\ UNCHANGED <<jobs, files, nextId, inflight, resp, ncalls>>

ExecuteNext == ExecuteApply

ExecuteSpec == ExecuteInit /\ [][ExecuteNext]_vars

\* ============================================ the add-in against the backend
\* One run of _poll_loop as the only client of the backend, on jobs that
\* submit_job has stored before.  A call of the add-in is answered (the
\* handler ran to its end while the client waited), times out (urlopen's
\* timeout of 30 s ends the wait while the handler stays suspended in its
\* LLM calls, each of which may take 60 s, and resumes later), or never
\* reaches the backend.  The thread's state is the record probe; stop() is
\* not called in this run.
MaxSessionJobs == 2

\* the design intent and the analysis of the jobs of this run
SessionIntent == Intent(Str(PT_LBracket), Str(UC_box))

SessionReplies ==
    {TransportError,
     Plan(<<>>),
     Plan(<<Op(1, "shell_body", "text")>>),
     Plan(<<Op(1, "shell_body", "null")>>)}

\* the store after n calls of submit_job have returned, the thread at poll_jobs
SessionInit ==
    /\ \E n \in 1..MaxSessionJobs :
          /\ jobs = [id \in 1..n |->
                        NewJob(id, "make this lighter", SessionIntent, Plan(<<>>))]
          /\ files = {Path(id, "input.f3d") : id \in 1..n}
          /\ nextId = n + 1
    /\ inflight = [s \in Slots |-> Idle]
    /\ resp = NoResponse
    /\ ncalls = 0
    /\ probe = [fn |-> "session", pc |-> "poll", analyzed |-> {}, executed |-> {},
                awaiting |-> {}, ready |-> <<>>, task |-> NoTask]

InSession(pc) == probe.fn = "session" /\ probe.pc = pc

\* the view without the job just visited
Without(view, j) == [id \in DOMAIN view \ {j} |-> view[id]]

\* where the cycle goes on: the for loop over awaiting, the one over ready,
\* then time.sleep
SessionContinue(awaiting, ready) ==
    IF awaiting # {} THEN "awaiting" ELSE IF DOMAIN ready # {} THEN "ready" ELSE "sleep"

\* client.poll_jobs() returned a dict with "error"
SessionPollError ==
    /\ InSession("poll")
    /\ probe' = [probe EXCEPT !.pc = "sleep"]
    /\ UNCHANGED <<jobs, files, nextId, inflight, resp, ncalls>>

\* client.poll_jobs() returned the two views of the store
SessionPoll ==
    /\ InSession("poll")
    /\ LET awaiting == DOMAIN AwaitingAnalysis
           ready == [id \in DOMAIN ReadyForExecution |->
                        ReadyForExecution[id].final_operations]
       IN  probe' = [probe EXCEPT !.awaiting = awaiting, !.ready = ready,
                                  !.pc = SessionContinue(awaiting, ready)]
    /\ resp' = [endpoint |-> "poll_jobs", result |-> "returned",
                awaiting_analysis |-> AwaitingAnalysis,
                ready_for_execution |-> ReadyForExecution]
    /\ UNCHANGED <<jobs, files, nextId, inflight, ncalls>>

\* time.sleep(POLL_INTERVAL), the loop test, poll_count += 1
SessionSleep ==
    /\ InSession("sleep")
    /\ probe' = [probe EXCEPT !.pc = "poll"]
    /\ UNCHANGED <<jobs, files, nextId, inflight, resp, ncalls>>

\* the thread after the job at the head of `awaiting` has been visited
AnalysisVisited(j) ==
    [probe EXCEPT !.analyzed = @ \cup {j},
                  !.awaiting = @ \ {j},
                  !.pc = SessionContinue(probe.awaiting \ {j}, probe.ready)]

\* job_id in _analyzed: passed over
SessionAnalysisSkip ==
    /\ InSession("awaiting")
    /\ AlreadyAnalyzed(NextJob(probe.awaiting))
    /\ probe' = AnalysisVisited(NextJob(probe.awaiting))
    /\ UNCHANGED <<jobs, files, nextId, inflight, resp, ncalls>>

\* _analyzed.add(job_id); _do_analysis returns before it submits (no active
\* document, not a design, an exception of the analyzer), or the POST fails
\* before it reaches the backend
SessionAnalysisFails ==
    /\ InSession("awaiting")
    /\ ~AlreadyAnalyzed(NextJob(probe.awaiting))
    /\ probe' = AnalysisVisited(NextJob(probe.awaiting))
    /\ UNCHANGED <<jobs, files, nextId, inflight, resp, ncalls>>

\* _analyzed.add(job_id); the POST times out: submit_model_analysis has stored
\* the analysis and stays suspended in Phase 2B
SessionAnalysisTimeout(s) ==
    /\ InSession("awaiting")
    /\ LET j == NextJob(probe.awaiting) IN
        /\ ~AlreadyAnalyzed(j)
        /\ FreeSlot(s)
        /\ jobs' = [jobs EXCEPT ![j].model_analysis = MeasuredAnalysis]
        /\ inflight' = [inflight EXCEPT ![s] =
               [k |-> "call", endpoint |-> "submit_model_analysis", pc |-> "phase2b",
                job |-> j, analysis |-> MeasuredAnalysis,
                design_intent |-> jobs[j].design_intent]]
        /\ probe' = AnalysisVisited(j)
    /\ UNCHANGED <<files, nextId, resp, ncalls>>

\* _analyzed.add(job_id); the POST is answered: submit_model_analysis ran to
\* its end while the client waited
SessionAnalysisAnswered(reply) ==
    /\ InSession("awaiting")
    /\ LET j == NextJob(probe.awaiting)
           refined_operations ==
               Phase2Result(jobs[j].design_intent, MeasuredAnalysis, reply)
       IN
        /\ ~AlreadyAnalyzed(j)
        /\ IF refined_operations = Raised
           THEN /\ jobs' = [jobs EXCEPT ![j].model_analysis = MeasuredAnalysis]
                /\ resp' = [endpoint |-> "submit_model_analysis", job |-> j,
                            result |-> "raised"]
           ELSE /\ jobs' = [jobs EXCEPT
                       ![j].model_analysis = MeasuredAnalysis,
                       ![j].final_operations = refined_operations,
                       ![j].status = "pending",
                       ![j].phase = "ready_for_execution"]
                /\ resp' = [endpoint |-> "submit_model_analysis", job |-> j,
                            result |-> "success"]
        /\ probe' = AnalysisVisited(j)
    /\ UNCHANGED <<files, nextId, inflight, ncalls>>

\* the thread after the job at the head of `ready` has been visited without
\* a task left to run
ExecutionVisited(j) ==
    [probe EXCEPT !.executed = @ \cup {j},
                  !.ready = Without(@, j),
                  !.pc = SessionContinue({}, Without(probe.ready, j))]

\* job_id in _executed: passed over
SessionExecutionSkip ==
    /\ InSession("ready")
    /\ AlreadyExecuted(NextJob(DOMAIN probe.ready))
    /\ probe' = ExecutionVisited(NextJob(DOMAIN probe.ready))
    /\ UNCHANGED <<jobs, files, nextId, inflight, resp, ncalls>>

\* _executed.add(job_id), then _do_execution up to its operation loop: it
\* returns at once for an empty operation list or without an active design
SessionExecutionDispatch(design) ==
    /\ InSession("ready")
    /\ LET j == NextJob(DOMAIN probe.ready)
           operations == probe.ready[j].operations
       IN
        /\ ~AlreadyExecuted(j)
        /\ probe' = IF operations = <<>> \/ ~design
                    THEN ExecutionVisited(j)
                    ELSE [ExecutionVisited(j) EXCEPT
                            !.pc = "operations",
                            !.task = [stage |-> "running", job |-> j,
                                      operations |-> operations,
                                      execution_results |-> <<>>]]
    /\ UNCHANGED <<jobs, files, nextId, inflight, resp, ncalls>>

\* the task is over: back to the for loop over the ready view
SessionEndTask == [probe EXCEPT !.task = NoTask, !.pc = SessionContinue({}, probe.ready)]

\* the operation loop, operation i succeeding as successes[i] says: the
\* logging line raises for "reasoning": null and ends the task; otherwise
\* one execution result per operation, then Phase 3 when one failed
SessionOperations ==
    /\ InSession("operations")
    /\ \E successes \in [1..Len(probe.task.operations) -> BOOLEAN] :
        LET operations == probe.task.operations
            results == [i \in 1..Len(operations) |->
                           ExecResult(operations[i], successes[i])]
        IN  probe' =
              IF \E i \in 1..Len(operations) : LogRaises(operations[i])
              THEN SessionEndTask
              ELSE [probe EXCEPT
                      !.task.execution_results = results,
                      !.pc = IF Failed(results) # <<>> THEN "report" ELSE "save"]
    /\ UNCHANGED <<jobs, files, nextId, inflight, resp, ncalls>>

\* client.retry_failed_operations fails before it reaches the backend:
\* retry_ops is []
SessionReportFails ==
    /\ InSession("report")
    /\ probe' = [probe EXCEPT !.pc = "save"]
    /\ UNCHANGED <<jobs, files, nextId, inflight, resp, ncalls>>

\* the POST times out: retry_failed_operations stays suspended in Phase 3,
\* the client gets its error dict and retry_ops is []
SessionReportTimeout(s) ==
    /\ InSession("report")
    /\ FreeSlot(s)
    /\ LET j == probe.task.job
           results == probe.task.execution_results
       IN  inflight' = [inflight EXCEPT ![s] =
               [k |-> "call", endpoint |-> "retry_failed_operations", pc |-> "phase3",
                job |-> j, results |-> results,
                retry_analysis |-> RetryAnalysis(Failed(results)),
                model_analysis |-> RetryModelAnalysis(jobs[j])]]
    /\ probe' = [probe EXCEPT !.pc = "save"]
    /\ UNCHANGED <<jobs, files, nextId, resp, ncalls>>

\* the POST is answered: retry_failed_operations ran to its end; the retry
\* loop that follows changes nothing the thread or the store keeps (an
\* exception in it is caught by the try around Phase 3)
SessionReportAnswered(reply) ==
    /\ InSession("report")
    /\ LET j == probe.task.job IN
           IF RetryModelAnalysis(jobs[j]) = Null
           THEN /\ resp' = [endpoint |-> "retry_failed_operations", job |-> j,
                            result |-> "raised"]
                /\ UNCHANGED jobs
           ELSE RetryStore(j, probe.task.execution_results, reply)
    /\ probe' = [probe EXCEPT !.pc = "save"]
    /\ UNCHANGED <<files, nextId, inflight, ncalls>>

\* _save_f3d: the export worked, or it returned None and the task returns
SessionSave(exported) ==
    /\ InSession("save")
    /\ probe' = IF exported THEN [probe EXCEPT !.pc = "upload"] ELSE SessionEndTask
    /\ UNCHANGED <<jobs, files, nextId, inflight, resp, ncalls>>

\* client.complete_job returned an error dict: nothing reached the backend
SessionUploadFails ==
    /\ InSession("upload")
    /\ probe' = SessionEndTask
    /\ UNCHANGED <<jobs, files, nextId, inflight, resp, ncalls>>

\* client.complete_job is answered: complete_job stored the file and
\* completed the job
SessionUpload ==
    /\ InSession("upload")
    /\ LET id == probe.task.job IN
        /\ files' = files \cup {Path(id, "output.f3d")}
        /\ jobs' = [jobs EXCEPT
               ![id].status = "completed",
               ![id].output_file = Path(id, "output.f3d"),
               ![id].phase = "completed"]
        /\ resp' = [endpoint |-> "complete_job", job |-> id, result |-> "success"]
    /\ probe' = SessionEndTask
    /\ UNCHANGED <<nextId, inflight, ncalls>>

\* the steps of the poll thread
SessionThread ==
    \/ SessionPollError
    \/ SessionPoll
    \/ SessionSleep
    \/ SessionAnalysisSkip
    \/ SessionAnalysisFails
    \/ \E s \in Slots : SessionAnalysisTimeout(s)
    \/ \E reply \in SessionReplies : SessionAnalysisAnswered(reply)
    \/ SessionExecutionSkip
    \/ \E design \in BOOLEAN : SessionExecutionDispatch(design)
    \/ SessionOperations
    \/ SessionReportFails
    \/ \E s \in Slots : SessionReportTimeout(s)
    \/ \E reply \in SessionReplies : SessionReportAnswered(reply)
    \/ \E exported \in BOOLEAN : SessionSave(exported)
    \/ SessionUploadFails
    \/ SessionUpload

\* a handler that outlived its client's wait resumes and runs to its end
SessionHandlers ==
    \/ \E s \in Slots, reply \in SessionReplies : SubmitAnalysisFinish(s, reply)
    \/ \E s \in Slots, reply \in SessionReplies : RetryFinish(s, reply)

SessionNext == SessionThread \/ SessionHandlers

SessionSpec == SessionInit /\ [][SessionNext]_vars

\* ============================================== src/InteliCAD.py (executor)
\* process_execution_job of the stand-alone add-in of src/InteliCAD.py, with
\* the OperationExecutor of src/operation_executor.py: one job's pass from
\* opening the file to the upload.  The pass is the record probe.
MaxJobOps == 3

\* operation types with a handler in execute_operation (two of the sixteen)
\* and one without
JobHandlerTypes == {"shell_body", "add_ribs"}
JobOpTypes == JobHandlerTypes \cup {"engrave"}

\* job_info['final_operations']['operations']
JobPlans == SeqsUpTo({OpKind(t, "text") : t \in JobOpTypes}, MaxJobOps)

\* execute_operation(operation): success when the type has a handler and the
\* handler returns; a handler that raises and an unknown type give
\* success False
ExecuteOperationResult(operation, handler_returns) ==
    [success |-> operation.type \in JobHandlerTypes /\ handler_returns,
     operation |-> operation.type]

ProcessExecutionJobInit ==
    /\ InitStore
    /\ probe \in [fn : {"process_execution_job"}, pc : {"open"},
                  operations : JobPlans, results : {<<>>}]

InJob(pc) == probe.fn = "process_execution_job" /\ probe.pc = pc

\* download_file and open_f3d_file: without a design the job returns
OpenF3dFile(design) ==
    /\ InJob("open")
    /\ probe' = [probe EXCEPT !.pc =
           IF ~design THEN "returned"
           ELSE IF probe.operations = <<>> THEN "save" ELSE "loop"]
    /\ UNCHANGED <<jobs, files, nextId, inflight, resp, ncalls>>

\* one pass of `for i, operation in enumerate(operations, 1)`: execute,
\* append, and break when the result is not a success
ExecuteOperationPass(handler_returns) ==
    /\ InJob("loop")
    /\ LET operation == probe.operations[Len(probe.results) + 1]
           result == ExecuteOperationResult(operation, handler_returns)
           results == Append(probe.results, result)
       IN  probe' = [probe EXCEPT
               !.results = results,
               !.pc = IF ~result.success THEN "save"
                      ELSE IF Len(results) < Len(probe.operations) THEN "loop"
                      ELSE "save"]
    /\ UNCHANGED <<jobs, files, nextId, inflight, resp, ncalls>>

\* save_f3d_file, api_client.complete_job: neither raises, the job returns
SaveAndComplete ==
    /\ InJob("save")
    /\ probe' = [probe EXCEPT !.pc = "uploaded"]
    /\ UNCHANGED <<jobs, files, nextId, inflight, resp, ncalls>>

ProcessExecutionJobNext ==
    \/ \E design \in BOOLEAN : OpenF3dFile(design)
    \/ \E handler_returns \in BOOLEAN : ExecuteOperationPass(handler_returns)
    \/ SaveAndComplete

ProcessExecutionJobSpec == ProcessExecutionJobInit /\ [][ProcessExecutionJobNext]_vars

\* ================================================================== claims

\* C1: once a job's analysis submission has stored its refined plan, no later
\* step (a second submit_model_analysis in particular) changes the job's
\* model_analysis or replaces its final_operations.
C1_SecondAnalysisChangesNothing ==
    [][\A id \in DOMAIN jobs :
          ~IsNone(jobs[id].final_operations) =>
              /\ jobs'[id].model_analysis = jobs[id].model_analysis
              /\ jobs'[id].final_operations = jobs[id].final_operations]_vars

\* C2: every operation that retry_failed_operations stores and returns for a
\* job that is ready for execution has the type of one of the failed
\* operations of the submitted report.
C2_RetryTypesMatchFailed ==
    (/\ resp.endpoint = "retry_failed_operations"
     /\ resp.result = "success"
     /\ jobs[resp.job].status = "pending"
     /\ jobs[resp.job].retry_operations.operations = resp.retry_operations) =>
        \A i \in 1..Len(resp.retry_operations) :
            \E f \in 1..Len(resp.failed) :
                resp.failed[f].operation.type = resp.retry_operations[i].type

\* C3: every operation of a final_operations list exposed in the
\* ready_for_execution view passes the safety filter for the job's part type
\* and use case.
C3_ReadyPlansPassFilter ==
    \A id \in DOMAIN ReadyForExecution :
        LET plan == ReadyForExecution[id].final_operations
            part_type == PartType(jobs[id].design_intent)
            use_case == UseCase(jobs[id].design_intent)
        IN  (~IsNone(plan) /\ part_type # Null) =>
                \A i \in 1..Len(plan.operations) :
                    KeepOp(plan.operations[i], Lower(GetText(part_type)),
                           GetText(use_case))

\* part types of the Phase 2 inputs that contain hanger, bracket, clip, mount or
\* hook in some letter case
LoadBearingInputs == {Str(PT_LBracket), Str(PT_HOOK), Str(PT_clipmount),
                      Str(PT_hanger_enclosure)}

\* positions of the raw reply whose operation is not of a forbidden type
C4_Allowed(raw) ==
    {i \in 1..Len(raw) :
        raw[i].type \notin {"strategic_holes", "ventilation", "fillet_all_edges"}}

\* the n-th smallest member of a set of positions
C4_Nth(positions, n) ==
    CHOOSE i \in positions : Cardinality({j \in positions : j <= i}) = n

C4_Applied ==
    /\ probe.fn = "phase2_generate_operations"
    /\ probe.result # Absent
    /\ Truthy(probe.model_analysis)
    /\ probe.design_plan.part_type \in LoadBearingInputs

\* C4: Phase 2 run with model data on a load-bearing part type returns no
\* strategic_holes, ventilation or fillet_all_edges operation, and returns every
\* other operation of the raw reply, unmodified and in the reply's order.
C4_LoadBearingFiltered ==
    C4_Applied =>
        LET raw == probe.reply.operations
            out == probe.result.operations
        IN  /\ Len(out) = Cardinality(C4_Allowed(raw))
            /\ \A n \in 1..Len(out) : out[n] = raw[C4_Nth(C4_Allowed(raw), n)]

\* C4 witness: a load-bearing reply of three operations of which the filter
\* removed the middle one and kept the other two
C4_Witness ==
    /\ C4_Applied
    /\ Len(probe.reply.operations) = 3
    /\ C4_Allowed(probe.reply.operations) = {1, 3}
    /\ Len(probe.result.operations) = 2

\* C5: a job's final_operations is non-null exactly when its model_analysis is.
C5_FinalIffAnalysis ==
    \A id \in DOMAIN jobs :
        IsNone(jobs[id].final_operations) <=> IsNone(jobs[id].model_analysis)

\* C6: a job that is ready for execution never returns to awaiting analysis,
\* and a completed job keeps its status and stays out of both poll views.
C6_PhasesMonotonic ==
    [][\A id \in DOMAIN jobs :
          /\ jobs[id].status = "pending" => jobs'[id].status # "pending_analysis"
          /\ jobs[id].status = "completed" =>
                /\ jobs'[id].status = "completed"
                /\ id \notin DOMAIN AwaitingAnalysis'
                /\ id \notin DOMAIN ReadyForExecution']_vars

\* C7: a failed job stays failed.
C7_FailedAbsorbing ==
    [][\A id \in DOMAIN jobs :
          jobs[id].status = "failed" => jobs'[id].status = "failed"]_vars

\* the jobs stored by the Phase 1 error branch of submit_job
FailedAtSubmission(id) == id \in DOMAIN jobs /\ jobs[id].error # NoKey

\* C8: a job whose Phase 1 failed at submission is in neither poll view.
C8_FailedNeverPolled ==
    \A id \in DOMAIN jobs :
        FailedAtSubmission(id) =>
            /\ id \notin DOMAIN AwaitingAnalysis
            /\ id \notin DOMAIN ReadyForExecution

\* C8 witness: a job failed at submission for which an analysis was submitted
\* and complete_job was called
C8_Witness ==
    \E id \in DOMAIN jobs :
        /\ FailedAtSubmission(id)
        /\ ~IsNone(jobs[id].model_analysis)
        /\ jobs[id].status = "completed"

SubmitInFlight(id) ==
    \E s \in Slots : inflight[s] # Idle /\ inflight[s].endpoint = "submit_job"
                     /\ inflight[s].job = id

\* C9: every submission whose upload was stored and whose handler has ended
\* created its job; a job awaiting analysis has a non-null design_intent.
C9_SubmissionCreatesJob ==
    /\ \A id \in JobIds :
          (Path(id, "input.f3d") \in files /\ ~SubmitInFlight(id)) =>
              id \in DOMAIN jobs
    /\ \A id \in DOMAIN jobs :
          jobs[id].status = "pending_analysis" => ~IsNone(jobs[id].design_intent)

\* C10: no step stores retry_operations on, or moves to retry_ready, a job
\* that is awaiting analysis, failed or completed.
C10_RetryOnlyWhenReady ==
    [][\A id \in DOMAIN jobs :
          jobs[id].status \in {"pending_analysis", "failed", "completed"} =>
              /\ jobs'[id].retry_operations = jobs[id].retry_operations
              /\ (jobs'[id].phase = "retry_ready" => jobs[id].phase = "retry_ready")]_vars

\* C11: complete_job does not complete a job that is awaiting analysis or that
\* failed in Phase 1: no step takes such a job to status completed or stores an
\* output file on it.
C11_CompleteOnlyWhenReady ==
    [][\A id \in DOMAIN jobs :
          jobs[id].status \in {"pending_analysis", "failed"} =>
              /\ jobs'[id].status # "completed"
              /\ jobs'[id].output_file = jobs[id].output_file
              /\ Path(id, "output.f3d") \in files' => Path(id, "output.f3d") \in files]_vars

\* the endpoints that take a job id
JobEndpoints == {"submit_model_analysis", "complete_job", "retry_failed_operations",
                 "get_job_status", "download_result"}

\* C12: a call of an endpoint that takes a job id, made with an id that is not
\* in the store, is answered with an error value (the handler does not raise)
\* and leaves the job store, the stored files and the id counter unchanged.
C12_UnknownIdIsAnError ==
    [][(/\ ncalls' # ncalls
        /\ inflight' = inflight
        /\ resp'.endpoint \in JobEndpoints
        /\ resp'.job \notin DOMAIN jobs) =>
            /\ resp'.result = "error"
            /\ jobs' = jobs
            /\ files' = files
            /\ nextId' = nextId]_vars

\* C12 witness: retry_failed_operations was answered for an id that is not in
\* a store that holds a job
C12_Witness ==
    /\ resp.endpoint = "retry_failed_operations"
    /\ resp.job \notin DOMAIN jobs
    /\ resp.result = "error"
    /\ jobs # <<>>

\* C13: the retry_operations of a job that is ready for execution turn non-null
\* only in a step that answers an execution report with at least one failed
\* result for that job; a report whose results all succeeded leaves them null.
C13_RetryOpsOnlyAfterFailure ==
    [][\A id \in DOMAIN jobs :
          (/\ jobs[id].status = "pending"
           /\ IsNone(jobs[id].retry_operations)
           /\ ~IsNone(jobs'[id].retry_operations)) =>
              /\ resp'.endpoint = "retry_failed_operations"
              /\ resp'.job = id
              /\ resp'.result = "success"
              /\ resp'.failed # <<>>]_vars

\* positions of an execution report whose result did not succeed
C14_FailedAt(results) == {i \in 1..Len(results) : ~results[i].success}

\* C14: Phase 3 calls the LLM only for a report with a failed result, and its
\* failure context has one entry per failed result, in report order, carrying
\* that result's operation type, reasoning and error and nothing of a succeeded
\* result; a report without a failed result is answered with an empty retry
\* set and count 0.
C14_Phase3WorksOnFailed ==
    /\ \A s \in Slots :
          IsAt(s, "retry_failed_operations", "phase3") =>
              LET results == inflight[s].results
                  context == inflight[s].retry_analysis
                  pos == C14_FailedAt(results)
              IN  /\ pos # {}
                  /\ Len(context) = Cardinality(pos)
                  /\ \A n \in 1..Len(context) :
                        LET r == results[C4_Nth(pos, n)] IN
                            /\ context[n].operation_type = r.operation.type
                            /\ context[n].original_reasoning = r.operation.reasoning
                            /\ context[n].error_message = r.error
    /\ (/\ resp.endpoint = "retry_failed_operations"
        /\ resp.result = "success"
        /\ C14_FailedAt(resp.report) = {}) =>
            /\ resp.retry_operations = <<>>
            /\ resp.count = 0

\* C14 witness: Phase 3 awaits the LLM for a report of three results of which
\* the middle one succeeded, with a failure context of two entries
C14_Witness ==
    \E s \in Slots :
        /\ IsAt(s, "retry_failed_operations", "phase3")
        /\ Len(inflight[s].results) = 3
        /\ C14_FailedAt(inflight[s].results) = {1, 3}
        /\ Len(inflight[s].retry_analysis) = 2

\* C15: no step of retry_failed_operations (the call up to its await, the
\* resumption after Phase 3, or a call answered at once) changes the status or
\* the output_file of any job, and every job that is in the ready_for_execution
\* view before the step is in it after the step.
C15_RetryNeverCompletes ==
    [][(\/ \E s \in Slots : /\ IsAt(s, "retry_failed_operations", "phase3")
                           /\ inflight'[s] = Idle
        \/ \E s \in Slots : /\ inflight[s] = Idle
                           /\ inflight'[s] # Idle
                           /\ inflight'[s].endpoint = "retry_failed_operations"
        \/ /\ inflight' = inflight
           /\ ncalls' # ncalls
           /\ resp'.endpoint = "retry_failed_operations") =>
            /\ DOMAIN jobs' = DOMAIN jobs
            /\ \A id \in DOMAIN jobs :
                  /\ jobs'[id].status = jobs[id].status
                  /\ jobs'[id].output_file = jobs[id].output_file
                  /\ id \in DOMAIN ReadyForExecution =>
                         id \in DOMAIN ReadyForExecution']_vars

\* C15 witness: retry operations were stored for a job that is still in the
\* ready_for_execution view, now in phase retry_ready
C15_Witness ==
    /\ resp.endpoint = "retry_failed_operations"
    /\ resp.result = "success"
    /\ resp.job \in DOMAIN ReadyForExecution
    /\ ReadyForExecution[resp.job].phase = "retry_ready"
    /\ jobs[resp.job].retry_operations.operations # <<>>
    /\ jobs[resp.job].output_file = Null

\* C16: poll_jobs can answer in every reachable state (each job it selects has
\* the keys it reads); a poll step changes no job; the awaiting_analysis view
\* of its response holds exactly the jobs with status pending_analysis, the
\* ready_for_execution view exactly the jobs with status pending; and no id is
\* in both views.
C16_PollViewsExactAndDisjoint ==
    /\ [](\A id \in DOMAIN jobs :
            /\ jobs[id].status \in {"pending_analysis", "pending"} =>
                   /\ jobs[id].phase # NoKey
                   /\ jobs[id].text_command # NoKey
                   /\ jobs[id].input_file # Absent
            /\ jobs[id].status = "pending_analysis" =>
                   /\ jobs[id].design_intent # Absent
                   /\ jobs[id].preliminary_operations # Absent
            /\ jobs[id].status = "pending" => jobs[id].final_operations # Absent)
    /\ [][(/\ ncalls' # ncalls
           /\ inflight' = inflight
           /\ resp'.endpoint = "poll_jobs") =>
              /\ jobs' = jobs
              /\ files' = files
              /\ DOMAIN resp'.awaiting_analysis =
                     {id \in DOMAIN jobs : jobs[id].status = "pending_analysis"}
              /\ DOMAIN resp'.ready_for_execution =
                     {id \in DOMAIN jobs : jobs[id].status = "pending"}
              /\ DOMAIN resp'.awaiting_analysis
                     \cap DOMAIN resp'.ready_for_execution = {}]_vars

\* C16 witness: a poll answered with one job in a view while the store holds
\* another job that is in neither view
C16_Witness ==
    /\ resp.endpoint = "poll_jobs"
    /\ \E id \in DOMAIN jobs :
          id \in DOMAIN resp.awaiting_analysis \cup DOMAIN resp.ready_for_execution
    /\ \E id \in DOMAIN jobs :
          /\ id \notin DOMAIN resp.awaiting_analysis
          /\ id \notin DOMAIN resp.ready_for_execution

\* C17: in a poll response, no entry of the awaiting_analysis view has a
\* model_analysis or retry_operations key and no entry of the
\* ready_for_execution view has a design_intent or preliminary_operations key.
C17_PollViewsDoNotLeak ==
    resp.endpoint = "poll_jobs" =>
        /\ \A id \in DOMAIN resp.awaiting_analysis :
              DOMAIN resp.awaiting_analysis[id]
                  \cap {"model_analysis", "retry_operations"} = {}
        /\ \A id \in DOMAIN resp.ready_for_execution :
              DOMAIN resp.ready_for_execution[id]
                  \cap {"design_intent", "preliminary_operations"} = {}

\* C17 witness: a poll answered with an awaiting_analysis entry for a job whose
\* record already holds a submitted model analysis
C17_Witness ==
    /\ resp.endpoint = "poll_jobs"
    /\ \E id \in DOMAIN resp.awaiting_analysis :
          /\ ~IsNone(jobs[id].model_analysis)
          /\ jobs[id].status = "pending_analysis"

\* C18: every completed job has a non-null output_file that was written to
\* disk; download_result answers with that file when the addressed job is
\* completed and with an error value for any other job or id.
C18_DownloadOnlyCompleted ==
    /\ [](\A id \in DOMAIN jobs :
            jobs[id].status = "completed" =>
                /\ ~IsNone(jobs[id].output_file)
                /\ jobs[id].output_file \in files)
    /\ [][(/\ ncalls' # ncalls
           /\ inflight' = inflight
           /\ resp'.endpoint = "download_result") =>
              IF resp'.job \in DOMAIN jobs /\ jobs[resp'.job].status = "completed"
              THEN /\ resp'.result = "file"
                   /\ resp'.file = jobs[resp'.job].output_file
              ELSE resp'.result = "error"]_vars

\* C18 witness: download_result answered with the stored output file of a
\* completed job
C18_Witness ==
    /\ resp.endpoint = "download_result"
    /\ resp.result = "file"
    /\ resp.file \in files
    /\ jobs[resp.job].status = "completed"

\* C19: Phase 2 applied to its own output, with the same part_type, use-case
\* description and model analysis, returns that output unchanged: a second pass
\* of the safety filter removes nothing.
C19_FilterIdempotent ==
    (probe.fn = "phase2_generate_operations" /\ probe.again # Absent) =>
        /\ probe.again # Raised
        /\ probe.again = probe.result

\* C19 witness: a second pass over a list from which the first pass, run with
\* model data, had removed an operation and kept another
C19_Witness ==
    /\ probe.fn = "phase2_generate_operations"
    /\ probe.again # Absent
    /\ Truthy(probe.model_analysis)
    /\ Len(probe.result.operations) < Len(probe.reply.operations)
    /\ Len(probe.again.operations) > 0

\* part types of the Phase 2 inputs that contain enclosure or housing in some
\* letter case and no load-bearing keyword
EnclosureInputs == {Str(PT_Housing), Str(PT_enclosure)}

\* use-case descriptions of the Phase 2 inputs that contain electronic or
\* cooling in some letter case
CoolingInputs == {Str(UC_Electronics), Str(UC_COOLING)}

C20_Applied ==
    /\ probe.fn = "phase2_generate_operations"
    /\ probe.result # Absent
    /\ Truthy(probe.model_analysis)
    /\ probe.design_plan.part_type \in EnclosureInputs

\* positions of the raw reply that the enclosure rule lets through
C20_Allowed(raw, use_case) ==
    IF use_case \in CoolingInputs
    THEN 1..Len(raw)
    ELSE {i \in 1..Len(raw) : raw[i].type # "ventilation"}

C21_DispatchedAtMostOnce ==
    probe.fn = "_poll_loop" =>
        \A j \in JobIds : probe.analyses[j] <= 1 /\ probe.executions[j] <= 1

\* C21 witness: a second poll lists as ready a job whose execution task was
\* dispatched in the first cycle and ended without completing the job
C21_Witness ==
    /\ InAddIn("ready")
    /\ probe.poll_count = 2
    /\ probe.task = NoTask
    /\ \E j \in probe.ready : probe.executions[j] = 1 /\ probe.completes[j] = 0

\* C22: a job enters the ready_for_execution view only in the step in which a
\* submit_model_analysis for that job finishes, and then with a non-null
\* final_operations that Phase 2 produced with model data (a model analysis
\* that the code treats as present).
C22_ReadyOnlyAfterAnalysis ==
    [][\A id \in DOMAIN jobs' :
          (id \notin DOMAIN ReadyForExecution /\ id \in DOMAIN ReadyForExecution') =>
              /\ ~IsNone(ReadyForExecution'[id].final_operations)
              /\ \E s \in Slots :
                    /\ IsAt(s, "submit_model_analysis", "phase2b")
                    /\ inflight[s].job = id
                    /\ inflight'[s] = Idle
                    /\ Truthy(inflight[s].analysis)]_vars

\* the execution task has left its operation loop (past `for i, op in
\* enumerate(operations, 1)`)
PastOperationLoop ==
    /\ probe.fn = "_poll_loop"
    /\ probe.task.stage \in {"report", "retry", "save", "upload", "raised", "success", "error"}
    /\ probe.task.kind = "execution"

\* the execution task has left its retry loop, or never entered it
PastRetryLoop ==
    /\ probe.fn = "_poll_loop"
    /\ probe.task.stage \in {"save", "upload", "success", "error"}
    /\ probe.task.kind = "execution"

\* results holds one entry per operation of ops, in list order
OnePerOperation(results, ops) ==
    /\ Len(results) = Len(ops)
    /\ \A i \in 1..Len(ops) : results[i].operation = ops[i]

\* C23: an execution task that has left its operation loop has attempted
\* every operation of final_operations in list order, one execution result
\* each, whatever failed before; and one that has left its retry loop has
\* attempted every retry operation in list order.
C23_EveryOperationAttempted ==
    /\ PastOperationLoop =>
           OnePerOperation(probe.task.execution_results, probe.task.operations)
    /\ PastRetryLoop =>
           OnePerOperation(probe.task.retry_results, probe.task.retry_ops)

\* the execution task of a dispatched job is over
ExecutionEnded ==
    /\ probe.fn = "_poll_loop"
    /\ probe.pc # "task"
    /\ probe.task.stage # "none"
    /\ probe.task.kind = "execution"

\* C24: when the execution task of a dispatched job is over, the document
\* has been exported and complete has been called for that job, each exactly
\* once, whatever the final operation list was (the empty list included).
C24_ExportedAndCompletedOnce ==
    ExecutionEnded =>
        /\ probe.exports[probe.task.job] = 1
        /\ probe.completes[probe.task.job] = 1

\* C25: the executor sends at most one execution report per job, and once
\* the retry operations of a job are being executed or have been executed,
\* no step reports for that job again, whatever the retried operations did.
C25_RetrySingleRound ==
    /\ [](probe.fn = "_poll_loop" => \A j \in JobIds : probe.reports[j] <= 1)
    /\ [][(/\ probe.fn = "_poll_loop"
           /\ probe.task.stage # "none"
           /\ probe.task.kind = "execution"
           /\ probe.task.retry_ops # <<>>)
          => probe'.reports[probe.task.job] = probe.reports[probe.task.job]]_vars

\* a retried operation failed again, the task went on to export and upload,
\* and the job was reported once
C25_Witness ==
    /\ probe.fn = "_poll_loop"
    /\ probe.task.stage = "success"
    /\ probe.task.kind = "execution"
    /\ Len(probe.task.retry_results) = Len(probe.task.retry_ops)
    /\ \E i \in 1..Len(probe.task.retry_results) : ~probe.task.retry_results[i].success
    /\ probe.reports[probe.task.job] = 1

\* the thread is at the loop test with the flag clear and the modelled
\* number of cycles used up
CyclesUsedUp == InAddIn("while") /\ ~probe.stop /\ probe.poll_count >= MaxPolls

\* C26: the poll loop is left only with the stop flag set, and wherever the
\* thread is inside the loop (after a failed analysis or execution task,
\* after a failed poll, report or upload) it has a next step to take: no
\* failure ends or blocks the loop.
C26_LoopEndsOnlyOnStop ==
    probe.fn = "_poll_loop" =>
        /\ probe.pc = "exited" => probe.stop
        /\ (probe.pc # "exited" /\ ~CyclesUsedUp) => ENABLED AddInThread

\* the execution task of the second cycle raised, the flag is clear, and the
\* thread is back at the loop test, about to start the next cycle
C26_Witness ==
    /\ InAddIn("while")
    /\ ~probe.stop
    /\ probe.poll_count = 2
    /\ probe.task.stage = "raised"
    /\ probe.task.kind = "execution"
    /\ \E j \in JobIds : probe.analyses[j] = 1

\* after stop is requested the loop starts no new poll cycle
C27_NoCycleAfterStop ==
    [][(probe.fn = "_poll_loop" /\ probe.stop) => probe'.poll_count = probe.poll_count]_vars

\* C27: an operation loop that was running when stop was requested goes on
\* to its end: each of its steps attempts the next operation, and it is left
\* only with one execution result per operation.
C27_StoppedLoopFinishesOperations ==
    [][(/\ probe.fn = "_poll_loop"
        /\ probe.stop_in_loop
        /\ InTask("operations")
        /\ probe' # probe)
       => /\ Len(probe'.task.execution_results) = Len(probe.task.execution_results) + 1
          /\ probe'.task.stage # "operations" =>
                 OnePerOperation(probe'.task.execution_results, probe.task.operations)]_vars

\* the thread keeps running as long as it has a step to take
AddInFairSpec == AddInSpec /\ WF_vars(AddInThread)

\* after stop is requested the loop eventually exits
C27_StopLeadsToExit == (probe.fn = "_poll_loop" /\ probe.stop) ~> probe.pc = "exited"

\* slot s holds a handler waiting for the gateway's reply of Phase 2
\* (preliminary or final) or Phase 3
AwaitsPlan(s) ==
    /\ inflight[s] # Idle
    /\ inflight[s].pc \in {"phase2", "phase2b", "phase3"}

\* C28: whatever the gateway returns to a handler that waits for a Phase 2
\* or Phase 3 reply, the handler answers without raising and the job it
\* works on is stored and is not failed.
C28_PlanFailuresDegrade ==
    [][\A s \in Slots :
          (AwaitsPlan(s) /\ inflight'[s] = Idle) =>
              /\ resp'.result # "raised"
              /\ inflight[s].job \in DOMAIN jobs'
              /\ jobs'[inflight[s].job].status # "failed"]_vars

\* the parser has been applied to the reply
Parsed == probe.fn = "_parse_nemotron_json" /\ probe.result # Absent

\* the reply has no opening brace outside a reasoning block: none at all, or
\* none in front of a reasoning block that is never closed
NoBraceLeft ==
    LET raw == Raw(probe)
        open == Find(raw, {"<think>"}, 1)
        kept == IF open # 0 /\ Find(raw, {"</think>"}, 1) = 0
                THEN SubSeq(raw, 1, open - 1) ELSE raw
    IN  Find(kept, {"{"}, 1) = 0 /\ (open = 0 \/ kept # raw)

ParseErrors ==
    {"No JSON object found", "Incomplete JSON object",
     "Could not parse Nemotron JSON response"}

\* C29: the parser returns for every reply and never raises; a reply with no
\* opening brace left gets the "No JSON object found" result; and every
\* result that is not a parsed object carries an empty operation list, one
\* of the three errors and the first 1500 characters of the raw reply.
C29_ParserTotal ==
    Parsed =>
        /\ probe.result.k = "returned"
        /\ NoBraceLeft => /\ probe.result.dict.k = "degraded"
                          /\ probe.result.dict.error = "No JSON object found"
        /\ probe.result.dict.k = "degraded" =>
               /\ probe.result.dict.operations = <<>>
               /\ probe.result.dict.error \in ParseErrors
               /\ probe.result.dict.raw_response = Prefix(Raw(probe), RawKept)

\* the reply is prose in which every reasoning block is closed, one
\* json-fenced block holding a well-formed object, and trailing text, with
\* no other fence
FencedObject ==
    /\ Find(RemoveThinkBlocks(probe.prose), {"<think>"}, 1) = 0
    /\ probe.open = <<"fence-json", "nl">>
    /\ probe.close = <<"nl", "fence">>
    /\ probe.body.kind = "object"
    /\ \A i \in 1..Len(probe.prose) : probe.prose[i] \notin Fences
    /\ \A i \in 1..Len(probe.trailing) : probe.trailing[i] \notin Fences

\* C30: a reply of prose, a json-fenced well-formed object and trailing text
\* parses to exactly that object, with no error, whatever the prose, the
\* object and the trailing text are.
C30_FencedObjectParses ==
    (Parsed /\ FencedObject) =>
        probe.result = Returned(ObjectOf(probe.body.members))

\* C31: when the report holds one failed shell_body with wall_thickness 2.0
\* and a topology-change error, every retry operation that Phase 3 returns
\* has type shell_body and a wall_thickness above 2.0, whatever the reply.
C31_ShellRetryThicker ==
    (/\ probe.fn = "phase3_retry_failed_operations"
     /\ probe.result \notin {Absent, Raised}
     /\ probe.execution_results = ShellFailedReport) =>
        \A i \in 1..Len(probe.result.operations) :
            /\ probe.result.operations[i].type = "shell_body"
            /\ probe.result.operations[i].wall_thickness > 20

\* execute has been applied to the operation
Executing == probe.fn = "execute" /\ probe.result # Absent

\* the operation's type is a string that names a handler
Handled ==
    /\ probe.operation.type \notin {Absent, Null, JsonList}
    /\ probe.operation.type.name \in HandlerTypes

\* C32: execute returns a result for every operation and never raises; the
\* result of an operation whose type names no handler is a failure with an
\* error text; every failure carries an error text and every success a
\* message; and a handler whose API calls throw gives a failure.
C32_ExecuteAlwaysReturns ==
    Executing =>
        /\ probe.result.k = "returned"
        /\ ~Handled => ~probe.result.dict.success
        /\ probe.result.dict.success => probe.result.dict.message # NoKey
        /\ ~probe.result.dict.success => probe.result.dict.error # NoKey
        /\ (/\ Handled
            /\ probe.operation.type.name \notin PlaceholderTypes
            /\ probe.fusion = "throws") => ~probe.result.dict.success

\* C33: an operation of a placeholder type always gets a failure result
\* with an error text, never a success.
C33_PlaceholderFails ==
    (/\ Executing
     /\ Handled
     /\ probe.operation.type.name \in PlaceholderTypes) =>
        /\ probe.result.k = "returned"
        /\ ~probe.result.dict.success
        /\ probe.result.dict.error # NoKey

\* C34: no step changes the text_command, the design_intent, the
\* preliminary_operations or the input_file of a job that exists, and no
\* step removes a job.
C34_CreationFieldsFrozen ==
    [][\A id \in DOMAIN jobs :
          /\ id \in DOMAIN jobs'
          /\ jobs'[id].text_command = jobs[id].text_command
          /\ jobs'[id].design_intent = jobs[id].design_intent
          /\ jobs'[id].preliminary_operations = jobs[id].preliminary_operations
          /\ jobs'[id].input_file = jobs[id].input_file]_vars

\* a job on which an analysis submission and a complete have acted, still
\* with the fields it was created with
C34_Witness ==
    \E id \in DOMAIN jobs :
        /\ jobs[id].status = "completed"
        /\ ~IsNone(jobs[id].model_analysis)
        /\ ~IsNone(jobs[id].final_operations)
        /\ ~IsNone(jobs[id].design_intent)
        /\ ~IsNone(jobs[id].preliminary_operations)
        /\ jobs[id].input_file = Path(id, "input.f3d")
        /\ jobs[id].text_command \in Commands

\* The poll thread keeps running, a suspended handler eventually resumes,
\* and no collaborator call fails for ever: a call that is attempted again
\* and again (poll, live-document access, analysis submission, export,
\* upload) eventually succeeds.
SessionFairSpec ==
    /\ SessionSpec
    /\ WF_vars(SessionThread)
    /\ WF_vars(SessionHandlers)
    /\ SF_vars(SessionPoll)
    /\ SF_vars(SessionAnalysisAnswered(Plan(<<Op(1, "shell_body", "text")>>)))
    /\ SF_vars(SessionExecutionDispatch(TRUE))
    /\ SF_vars(SessionSave(TRUE))
    /\ SF_vars(SessionUpload)

\* C35: every job created in pending_analysis eventually reaches completed
\* when the poll loop keeps running and no collaborator call keeps failing;
\* in particular a job left in a poll view after a failed dispatch does not
\* stay there for ever.
C35_EveryJobCompletes ==
    \A id \in 1..MaxSessionJobs :
        (id \in DOMAIN jobs /\ jobs[id].status = "pending_analysis")
            ~> (id \in DOMAIN jobs /\ jobs[id].status = "completed")

\* C36: with the poll loop as the only client, once complete_job has
\* returned for a job (its status and phase are both completed), no later
\* step, a handler resuming after its client's timeout included, changes
\* the job's status or phase.
C36_CompletedStaysCompleted ==
    [][\A id \in DOMAIN jobs :
          (jobs[id].status = "completed" /\ jobs[id].phase = "completed") =>
              (jobs'[id].status = "completed" /\ jobs'[id].phase = "completed")]_vars

\* status and phase of a stored job name the same lifecycle state
SamePhase(job) ==
    \/ job.status = "pending_analysis" /\ job.phase = "awaiting_model_analysis"
    \/ job.status = "pending" /\ job.phase \in {"ready_for_execution", "retry_ready"}
    \/ job.status = "completed" /\ job.phase = "completed"
    \/ job.status = "failed" /\ job.phase = NoKey

\* C37: in every reachable state of the job store, status and phase of each
\* job are one of the pairs (pending_analysis, awaiting_model_analysis),
\* (pending, ready_for_execution), (pending, retry_ready), (completed,
\* completed), and a failed job has no phase.
C37_StatusAndPhaseAgree == \A id \in DOMAIN jobs : SamePhase(jobs[id])

\* C38: the retry set that Phase 3 returns for an execution report never
\* holds more operations than the report holds failed results.
C38_RetryForFailedOnly ==
    (/\ probe.fn = "phase3_retry_failed_operations"
     /\ probe.result \notin {Absent, Raised}) =>
        Len(probe.result.operations) <= Len(Failed(probe.execution_results))

\* C39: when process_execution_job of src/InteliCAD.py has left its
\* operation loop, it has attempted every operation of final_operations in
\* list order, one result each, whatever failed before.
C39_LegacyLoopAttemptsAll ==
    (probe.fn = "process_execution_job" /\ probe.pc \in {"save", "uploaded"}) =>
        /\ Len(probe.results) = Len(probe.operations)
        /\ \A i \in 1..Len(probe.operations) :
               probe.results[i].operation = probe.operations[i].type

\* the reply is exactly the serialization of a well-formed object
PlainObject ==
    /\ probe.prose = <<>>
    /\ probe.open = <<>>
    /\ probe.close = <<>>
    /\ probe.trailing = <<>>
    /\ probe.body.kind = "object"

\* C40: a reply that is exactly the serialization of a JSON object parses
\* back to that object, also when its string values contain a brace, "//"
\* or "/*".
C40_PlainObjectRoundTrip ==
    (Parsed /\ PlainObject) =>
        probe.result = Returned(ObjectOf(probe.body.members))

====
